---- MODULE Spec2Model ----
(***************************************************************************)
(* AuthKit: the credential and token-lifecycle state machine of the auth   *)
(* controller (register / verify-email / login / forgot-password /         *)
(* reset-password / update-profile), its session guard and the Mongo user  *)
(* collection it reads and writes.                                          *)
(*                                                                         *)
(* Strings that the code transforms (emails, tenant ids, passwords) are     *)
(* sequences of one-character strings, so trim / toLowerCase / length are   *)
(* computed.  Time is counted in hours.                                     *)
(***************************************************************************)
EXTENDS Integers, Sequences, FiniteSets, TLC

VARIABLES users, now, nextToken, held, res, procs

vars == <<users, now, nextToken, held, res, procs>>

----------------------------------------------------------------------------
(* Bounds of the model *)

MaxTime == 36
MaxTokens == 3
MaxUsers == 2
MaxSessions == 1

----------------------------------------------------------------------------
(* Values *)

\* JavaScript null for a token field (tokens are minted from 1 upwards)
NullToken == 0
\* JavaScript null for the tokenExpires date
NullDate == -1

\* 24 * 60 * 60 * 1000 ms, in hours
VERIFY_TTL == 24
RESET_TTL == 24
\* expiresIn "1d", in hours
JWT_EXPIRES_IN == 24
\* Joi min(6) / password.length < 6
MIN_PASSWORD == 6

ClockStep == VERIFY_TTL \div 2

Str_default == <<"d", "e", "f", "a", "u", "l", "t">>
Undefined == <<>>

\* request header X-Tenant-ID as sent by the client (<<>>: header absent)
Tenant_1 == <<"s", "1">>
Tenant_2 == <<"s", "2">>
TenantHeaders == {Tenant_1, Tenant_2}

\* emails as typed by the client; <<>> is a missing / empty email
Email_a == <<"a", "@", "x">>
Email_b == <<"b", "@", "x">>
Email_A == <<" ", "A", "@", "X">>
ValidEmails == {Email_a, Email_b, Email_A}
RawEmails == ValidEmails \cup {<<>>}

Pw_1 == <<"s", "e", "c", "r", "e", "t">>
Pw_2 == <<"h", "u", "n", "t", "e", "r">>
Pw_short == <<"a", "b", "c", "d", "e">>
ValidPasswords == {Pw_1, Pw_2}
Passwords == ValidPasswords \cup {Pw_short, <<>>}

Names == {"Al", ""}
ValidNames == Names \ {""}
ProfileNames == {"Bo"}
Avatars == {"pic"}
NoAvatar == "null"

Salts == {1}

\* a token value that crypto.randomBytes never produced
BogusToken == MaxTokens + 1
PresentedTokens == 0..BogusToken

----------------------------------------------------------------------------
(* String helpers: String.prototype.trim / toLowerCase *)

LowerChar(c) == IF c = "A" THEN "a" ELSE IF c = "X" THEN "x" ELSE IF c = "S" THEN "s" ELSE c

ToLowerCase(s) == [i \in 1..Len(s) |-> LowerChar(s[i])]

RECURSIVE TrimLeft(_)
TrimLeft(s) == IF s # <<>> /\ Head(s) = " " THEN TrimLeft(Tail(s)) ELSE s

RECURSIVE TrimRight(_)
TrimRight(s) == IF s # <<>> /\ s[Len(s)] = " " THEN TrimRight(SubSeq(s, 1, Len(s) - 1)) ELSE s

Trim(s) == TrimRight(TrimLeft(s))

Min(S) == CHOOSE x \in S : \A y \in S : x <= y

----------------------------------------------------------------------------
(* The user collection: a sequence of documents, _id = position *)

\* new User({name, email, password, tenantId, verificationToken, tokenExpires})
\* with the schema defaults for the fields the constructor is not given
NewUser(name, email, hash, tenantId, verificationToken, tokenExpires) ==
  [ name |-> name,
    email |-> email,
    password |-> hash,
    tenantId |-> tenantId,
    role |-> "user",
    isVerified |-> FALSE,
    verificationToken |-> verificationToken,
    resetToken |-> NullToken,
    tokenExpires |-> tokenExpires,
    avatarURL |-> NoAvatar ]

\* User.findOne(filter): the _id of the first matching document, 0 for null
FindOne(store, Match(_)) ==
  LET S == {i \in 1..Len(store) : Match(store[i])}
  IN IF S = {} THEN 0 ELSE Min(S)

\* filter { email, tenantId }
ByEmailTenant(store, email, tenantId) ==
  FindOne(store, LAMBDA u : u.email = email /\ u.tenantId = tenantId)

\* filter { tokenExpires: { $gt: new Date() } } on one document
ExpiryAfter(u, t) == u.tokenExpires # NullDate /\ u.tokenExpires > t

\* filter { verificationToken: token, tokenExpires: { $gt: new Date() } }
ByLiveVerificationToken(store, token, t) ==
  FindOne(store, LAMBDA u : u.verificationToken = token /\ ExpiryAfter(u, t))

\* filter { verificationToken: token }
ByVerificationToken(store, token) ==
  FindOne(store, LAMBDA u : u.verificationToken = token)

\* filter { resetToken: token, tokenExpires: { $gt: new Date() } }
ByLiveResetToken(store, token, t) ==
  FindOne(store, LAMBDA u : u.resetToken = token /\ ExpiryAfter(u, t))

----------------------------------------------------------------------------
(* Collaborators *)

\* bcrypt.hash(password, salt): bcrypt reads at most 72 bytes of the password
BcryptHash(password, salt) ==
  [ salt |-> salt,
    key |-> IF Len(password) > 72 THEN SubSeq(password, 1, 72) ELSE password ]

\* bcrypt.compare(password, hash): re-hash with the salt stored in the hash
BcryptCompare(password, hash) == BcryptHash(password, hash.salt) = hash

\* process.env.JWT_SECRET, and a key that is not it
JWT_SECRET == "JWT_SECRET"
OtherSecret == "other"

\* jwt.sign(payload, process.env.JWT_SECRET, { expiresIn }): the claims, the
\* expiry and the key the signature was made with
GenerateToken(payload, t) ==
  [ secret |-> JWT_SECRET,
    userId |-> payload.userId,
    email |-> payload.email,
    role |-> payload.role,
    tenantId |-> payload.tenantId,
    exp |-> t + JWT_EXPIRES_IN ]

\* middlewares/tenant.middleware.js: the value it would attach as req.tenantId
tenantMiddleware(xTenantId, xAppName, queryTenantId) ==
  LET tenantId == IF xTenantId # Undefined THEN xTenantId
                  ELSE IF xAppName # Undefined THEN xAppName
                  ELSE IF queryTenantId # Undefined THEN queryTenantId
                  ELSE Str_default
  IN Trim(ToLowerCase(tenantId))

\* req.tenantId as the public routes' handlers see it: server.js mounts
\* authLimiter and the router, the router mounts the handlers, and nothing
\* on the way assigns req.tenantId from the request's headers
RequestTenantId(hdr) == Undefined

\* const tenantId = req.tenantId || 'default'
ControllerTenant(reqTenantId) ==
  IF reqTenantId = Undefined THEN Str_default ELSE reqTenantId

\* email.trim().toLowerCase()
NormalizeEmail(email) == ToLowerCase(Trim(email))

----------------------------------------------------------------------------
(* Responses *)

NoSession == {}

Response(op, status, msg) ==
  [ op |-> op, status |-> status, msg |-> msg,
    needsVerification |-> FALSE, session |-> NoSession, mail |-> "none",
    user |-> {} ]

\* Query.select('-a -b ...'): the document without the excluded paths
Select(doc, excluded) == [f \in (DOMAIN doc) \ excluded |-> doc[f]]

\* res.json({ message, user }): the response with the document as its payload
WithUser(response, doc) == [response EXCEPT !.user = {doc}]

\* what became of the handler's sendEmail call
Mailed(response, mailOk) ==
  [response EXCEPT !.mail = IF mailOk THEN "sent" ELSE "failed"]

Msg_invalidCredentials == "Invalid credentials."
Msg_needsVerification == "Please verify your email before logging in."
Msg_tokenInvalid == "Invalid verification token."
Msg_tokenExpired == "Verification token has expired."
Msg_resetInvalid == "Invalid or expired reset token"
Msg_emailInUse == "Email already in use in this application"

----------------------------------------------------------------------------
(* Handlers of controllers/auth.controller.js.  Each yields the collection  *)
(* after the handler, its response, and whether it minted a random token.   *)

Outcome(store, response, minted) ==
  [ users |-> store, res |-> response, minted |-> minted ]

\* registerSchema.validate(req.body): the first failing key's message, "" when valid
RegisterSchemaError(name, email, password) ==
  IF name = "" THEN "Name is required"
  ELSE IF Trim(email) = <<>> THEN "Email is required"
  ELSE IF password = <<>> THEN "Password is required"
  ELSE IF Len(password) < MIN_PASSWORD THEN "Password must be at least 6 characters"
  ELSE ""

\* loginSchema.validate(req.body)
LoginSchemaError(email, password) ==
  IF Trim(email) = <<>> THEN "Email is required"
  ELSE IF password = <<>> THEN "Password is required"
  ELSE ""

\* registerUser that looks the email up, and stores it, as it was sent
registerUser_rawEmail(store, t, tok, reqTenantId, name, rawEmail, password, salt, mailOk) ==
  LET error == RegisterSchemaError(name, rawEmail, password)
      email == rawEmail
      tenantId == ControllerTenant(reqTenantId)
      existingUser == ByEmailTenant(store, email, tenantId)
      newUser == NewUser(name, email, BcryptHash(password, salt), tenantId,
                         tok, t + VERIFY_TTL)
  IN IF error # "" THEN Outcome(store, Response("register", 400, error), FALSE)
     ELSE IF existingUser # 0
       THEN Outcome(store, Response("register", 409, Msg_emailInUse), FALSE)
     ELSE Outcome(Append(store, newUser),
                  Mailed(Response("register", 201, "User registered successfully. Please check your email to verify your account."), mailOk),
                  TRUE)

\* registerUser whose failing sendEmail reaches the outer catch
registerUser_mailFatal(store, t, tok, reqTenantId, name, rawEmail, password, salt, mailOk) ==
  LET error == RegisterSchemaError(name, rawEmail, password)
      email == NormalizeEmail(rawEmail)
      tenantId == ControllerTenant(reqTenantId)
      existingUser == ByEmailTenant(store, email, tenantId)
      newUser == NewUser(name, email, BcryptHash(password, salt), tenantId,
                         tok, t + VERIFY_TTL)
  IN IF error # "" THEN Outcome(store, Response("register", 400, error), FALSE)
     ELSE IF existingUser # 0
       THEN Outcome(store, Response("register", 409, Msg_emailInUse), FALSE)
     ELSE IF ~mailOk
       THEN Outcome(Append(store, newUser),
                    Mailed(Response("register", 500, "Server error."), mailOk), TRUE)
     ELSE Outcome(Append(store, newUser),
                  Mailed(Response("register", 201, "User registered successfully. Please check your email to verify your account."), mailOk),
                  TRUE)

\* registerUser of the revision that keeps the verification token in the
\* resetToken field
registerUser_tokenInResetField(store, t, tok, reqTenantId, name, rawEmail, password, salt, mailOk) ==
  LET error == RegisterSchemaError(name, rawEmail, password)
      email == NormalizeEmail(rawEmail)
      tenantId == ControllerTenant(reqTenantId)
      existingUser == ByEmailTenant(store, email, tenantId)
      newUser == [NewUser(name, email, BcryptHash(password, salt), tenantId,
                          NullToken, t + VERIFY_TTL) EXCEPT !.resetToken = tok]
  IN IF error # "" THEN Outcome(store, Response("register", 400, error), FALSE)
     ELSE IF existingUser # 0
       THEN Outcome(store, Response("register", 409, Msg_emailInUse), FALSE)
     ELSE Outcome(Append(store, newUser),
                  Mailed(Response("register", 201, "User registered successfully. Please check your email to verify your account."), mailOk),
                  TRUE)

registerUser(store, t, tok, reqTenantId, name, rawEmail, password, salt, mailOk) ==
  LET error == RegisterSchemaError(name, rawEmail, password)
      email == NormalizeEmail(rawEmail)
      tenantId == ControllerTenant(reqTenantId)
      existingUser == ByEmailTenant(store, email, tenantId)
      newUser == NewUser(name, email, BcryptHash(password, salt), tenantId,
                         tok, t + VERIFY_TTL)
  IN IF error # "" THEN Outcome(store, Response("register", 400, error), FALSE)
     ELSE IF existingUser # 0
       THEN Outcome(store, Response("register", 409, Msg_emailInUse), FALSE)
     \* a failing sendEmail is caught and logged: 201 whatever mailOk is
     ELSE Outcome(Append(store, newUser),
                  Mailed(Response("register", 201, "User registered successfully. Please check your email to verify your account."), mailOk),
                  TRUE)

\* loginUser that tells a wrong password apart from an unknown email
loginUser_wrongPasswordMsg(store, t, reqTenantId, rawEmail, password) ==
  LET error == LoginSchemaError(rawEmail, password)
      tenantId == ControllerTenant(reqTenantId)
      id == ByEmailTenant(store, ToLowerCase(Trim(rawEmail)), tenantId)
      user == store[id]
      payload == [ userId |-> id, email |-> user.email, role |-> user.role,
                   tenantId |-> tenantId ]
  IN IF error # "" THEN Outcome(store, Response("login", 400, error), FALSE)
     ELSE IF id = 0
       THEN Outcome(store, Response("login", 401, Msg_invalidCredentials), FALSE)
     ELSE IF ~user.isVerified
       THEN Outcome(store, [Response("login", 401, Msg_needsVerification)
                              EXCEPT !.needsVerification = TRUE], FALSE)
     ELSE IF ~BcryptCompare(password, user.password)
       THEN Outcome(store, Response("login", 401, "Wrong password."), FALSE)
     ELSE Outcome(store, [Response("login", 200, "")
                            EXCEPT !.session = {GenerateToken(payload, t)}], FALSE)

\* loginUser without the isVerified check (the earlier revision's login)
loginUser_unchecked(store, t, reqTenantId, rawEmail, password) ==
  LET error == LoginSchemaError(rawEmail, password)
      tenantId == ControllerTenant(reqTenantId)
      id == ByEmailTenant(store, ToLowerCase(Trim(rawEmail)), tenantId)
      user == store[id]
      payload == [ userId |-> id, email |-> user.email, role |-> user.role,
                   tenantId |-> tenantId ]
  IN IF error # "" THEN Outcome(store, Response("login", 400, error), FALSE)
     ELSE IF id = 0
       THEN Outcome(store, Response("login", 401, Msg_invalidCredentials), FALSE)
     ELSE IF ~BcryptCompare(password, user.password)
       THEN Outcome(store, Response("login", 401, Msg_invalidCredentials), FALSE)
     ELSE Outcome(store, [Response("login", 200, "")
                            EXCEPT !.session = {GenerateToken(payload, t)}], FALSE)

loginUser(store, t, reqTenantId, rawEmail, password) ==
  LET error == LoginSchemaError(rawEmail, password)
      tenantId == ControllerTenant(reqTenantId)
      id == ByEmailTenant(store, ToLowerCase(Trim(rawEmail)), tenantId)
      user == store[id]
      payload == [ userId |-> id, email |-> user.email, role |-> user.role,
                   tenantId |-> tenantId ]
  IN IF error # "" THEN Outcome(store, Response("login", 400, error), FALSE)
     ELSE IF id = 0
       THEN Outcome(store, Response("login", 401, Msg_invalidCredentials), FALSE)
     ELSE IF ~user.isVerified
       THEN Outcome(store, [Response("login", 401, Msg_needsVerification)
                              EXCEPT !.needsVerification = TRUE], FALSE)
     ELSE IF ~BcryptCompare(password, user.password)
       THEN Outcome(store, Response("login", 401, Msg_invalidCredentials), FALSE)
     ELSE Outcome(store, [Response("login", 200, "")
                            EXCEPT !.session = {GenerateToken(payload, t)}], FALSE)

\* verifyEmail that leaves the consumed token on the document
verifyEmail_keepsToken(store, t, token) ==
  LET id == ByLiveVerificationToken(store, token, t)
      expiredUser == ByVerificationToken(store, token)
  IN IF token = NullToken
       THEN Outcome(store, Response("verify", 400, "Verification token is required."), FALSE)
     ELSE IF id = 0
       THEN Outcome(store, Response("verify", 400,
                      IF expiredUser # 0 THEN Msg_tokenExpired ELSE Msg_tokenInvalid), FALSE)
     ELSE Outcome([store EXCEPT ![id].isVerified = TRUE],
                  Response("verify", 200, "Email Verified Successfully!"), FALSE)

\* verifyEmail that consumes the token without marking the user verified
verifyEmail_noFlag(store, t, token) ==
  LET id == ByLiveVerificationToken(store, token, t)
      expiredUser == ByVerificationToken(store, token)
  IN IF token = NullToken
       THEN Outcome(store, Response("verify", 400, "Verification token is required."), FALSE)
     ELSE IF id = 0
       THEN Outcome(store, Response("verify", 400,
                      IF expiredUser # 0 THEN Msg_tokenExpired ELSE Msg_tokenInvalid), FALSE)
     ELSE Outcome([store EXCEPT ![id].verificationToken = NullToken,
                                ![id].tokenExpires = NullDate],
                  Response("verify", 200, "Email Verified Successfully!"), FALSE)

\* verifyEmail without the second lookup (the earlier revision's single message)
verifyEmail_oneMessage(store, t, token) ==
  LET id == ByLiveVerificationToken(store, token, t)
  IN IF token = NullToken
       THEN Outcome(store, Response("verify", 400, "Verification token is required."), FALSE)
     ELSE IF id = 0
       THEN Outcome(store, Response("verify", 400, Msg_tokenInvalid), FALSE)
     ELSE Outcome([store EXCEPT ![id].isVerified = TRUE,
                                ![id].verificationToken = NullToken,
                                ![id].tokenExpires = NullDate],
                  Response("verify", 200, "Email Verified Successfully!"), FALSE)

\* verifyEmail that takes an expired token off the record it refuses
verifyEmail_purgesExpired(store, t, token) ==
  LET id == ByLiveVerificationToken(store, token, t)
      expiredUser == ByVerificationToken(store, token)
  IN IF token = NullToken
       THEN Outcome(store, Response("verify", 400, "Verification token is required."), FALSE)
     ELSE IF id = 0 /\ expiredUser # 0
       THEN Outcome([store EXCEPT ![expiredUser].verificationToken = NullToken,
                                  ![expiredUser].tokenExpires = NullDate],
                    Response("verify", 400, Msg_tokenExpired), FALSE)
     ELSE IF id = 0
       THEN Outcome(store, Response("verify", 400, Msg_tokenInvalid), FALSE)
     ELSE Outcome([store EXCEPT ![id].isVerified = TRUE,
                                ![id].verificationToken = NullToken,
                                ![id].tokenExpires = NullDate],
                  Response("verify", 200, "Email Verified Successfully!"), FALSE)

verifyEmail(store, t, token) ==
  LET id == ByLiveVerificationToken(store, token, t)
      expiredUser == ByVerificationToken(store, token)
  IN IF token = NullToken
       THEN Outcome(store, Response("verify", 400, "Verification token is required."), FALSE)
     ELSE IF id = 0
       THEN Outcome(store, Response("verify", 400,
                      IF expiredUser # 0 THEN Msg_tokenExpired ELSE Msg_tokenInvalid), FALSE)
     ELSE Outcome([store EXCEPT ![id].isVerified = TRUE,
                                ![id].verificationToken = NullToken,
                                ![id].tokenExpires = NullDate],
                  Response("verify", 200, "Email Verified Successfully!"), FALSE)

\* forgotPassword that keeps a reset token that is already pending
forgotPassword_keepsPending(store, t, tok, reqTenantId, rawEmail, mailOk) ==
  LET tenantId == ControllerTenant(reqTenantId)
      id == ByEmailTenant(store, ToLowerCase(Trim(rawEmail)), tenantId)
      saved == IF store[id].resetToken # NullToken THEN store
               ELSE [store EXCEPT ![id].resetToken = tok,
                                  ![id].tokenExpires = t + RESET_TTL]
  IN IF rawEmail = <<>>
       THEN Outcome(store, Response("forgot", 400, "Email is required"), FALSE)
     ELSE IF id = 0
       THEN Outcome(store, Response("forgot", 404, "No user found with this email in this application"), FALSE)
     ELSE IF ~mailOk
       THEN Outcome(saved, Mailed(Response("forgot", 500, "Could not send reset email"), mailOk), TRUE)
     ELSE Outcome(saved, Mailed(Response("forgot", 200, "Password reset email sent successfully! Check your email for the reset link."), mailOk), TRUE)

\* forgotPassword that saves the token only once the mail is out
forgotPassword_sendsFirst(store, t, tok, reqTenantId, rawEmail, mailOk) ==
  LET tenantId == ControllerTenant(reqTenantId)
      id == ByEmailTenant(store, ToLowerCase(Trim(rawEmail)), tenantId)
      saved == [store EXCEPT ![id].resetToken = tok,
                             ![id].tokenExpires = t + RESET_TTL]
  IN IF rawEmail = <<>>
       THEN Outcome(store, Response("forgot", 400, "Email is required"), FALSE)
     ELSE IF id = 0
       THEN Outcome(store, Response("forgot", 404, "No user found with this email in this application"), FALSE)
     ELSE IF ~mailOk
       THEN Outcome(store, Mailed(Response("forgot", 500, "Could not send reset email"), mailOk), TRUE)
     ELSE Outcome(saved, Mailed(Response("forgot", 200, "Password reset email sent successfully! Check your email for the reset link."), mailOk), TRUE)

forgotPassword(store, t, tok, reqTenantId, rawEmail, mailOk) ==
  LET tenantId == ControllerTenant(reqTenantId)
      id == ByEmailTenant(store, ToLowerCase(Trim(rawEmail)), tenantId)
      saved == [store EXCEPT ![id].resetToken = tok,
                             ![id].tokenExpires = t + RESET_TTL]
  IN IF rawEmail = <<>>
       THEN Outcome(store, Response("forgot", 400, "Email is required"), FALSE)
     ELSE IF id = 0
       THEN Outcome(store, Response("forgot", 404, "No user found with this email in this application"), FALSE)
     ELSE IF ~mailOk
       THEN Outcome(saved, Mailed(Response("forgot", 500, "Could not send reset email"), mailOk), TRUE)
     ELSE Outcome(saved, Mailed(Response("forgot", 200, "Password reset email sent successfully! Check your email for the reset link."), mailOk), TRUE)

\* resetPassword that leaves the used token on the document
resetPassword_keepsToken(store, t, token, password, salt) ==
  LET id == ByLiveResetToken(store, token, t)
  IN IF token = NullToken \/ password = <<>>
       THEN Outcome(store, Response("reset", 400, "Token and password are required"), FALSE)
     ELSE IF Len(password) < MIN_PASSWORD
       THEN Outcome(store, Response("reset", 400, "Password must be at least 6 characters"), FALSE)
     ELSE IF id = 0
       THEN Outcome(store, Response("reset", 400, Msg_resetInvalid), FALSE)
     ELSE Outcome([store EXCEPT ![id].password = BcryptHash(password, salt)],
                  Response("reset", 200, "Password reset successful"), FALSE)

\* resetPassword that takes the mailed token as proof of the email
resetPassword_verifies(store, t, token, password, salt) ==
  LET id == ByLiveResetToken(store, token, t)
  IN IF token = NullToken \/ password = <<>>
       THEN Outcome(store, Response("reset", 400, "Token and password are required"), FALSE)
     ELSE IF Len(password) < MIN_PASSWORD
       THEN Outcome(store, Response("reset", 400, "Password must be at least 6 characters"), FALSE)
     ELSE IF id = 0
       THEN Outcome(store, Response("reset", 400, Msg_resetInvalid), FALSE)
     ELSE Outcome([store EXCEPT ![id].password = BcryptHash(password, salt),
                                ![id].isVerified = TRUE,
                                ![id].resetToken = NullToken,
                                ![id].tokenExpires = NullDate],
                  Response("reset", 200, "Password reset successful"), FALSE)

\* resetPassword whose length test is off by one
resetPassword_minSeven(store, t, token, password, salt) ==
  LET id == ByLiveResetToken(store, token, t)
  IN IF token = NullToken \/ password = <<>>
       THEN Outcome(store, Response("reset", 400, "Token and password are required"), FALSE)
     ELSE IF Len(password) <= MIN_PASSWORD
       THEN Outcome(store, Response("reset", 400, "Password must be at least 6 characters"), FALSE)
     ELSE IF id = 0
       THEN Outcome(store, Response("reset", 400, Msg_resetInvalid), FALSE)
     ELSE Outcome([store EXCEPT ![id].password = BcryptHash(password, salt),
                                ![id].resetToken = NullToken,
                                ![id].tokenExpires = NullDate],
                  Response("reset", 200, "Password reset successful"), FALSE)

\* resetPassword that makes the account prove its email again
resetPassword_unverifies(store, t, token, password, salt) ==
  LET id == ByLiveResetToken(store, token, t)
  IN IF token = NullToken \/ password = <<>>
       THEN Outcome(store, Response("reset", 400, "Token and password are required"), FALSE)
     ELSE IF Len(password) < MIN_PASSWORD
       THEN Outcome(store, Response("reset", 400, "Password must be at least 6 characters"), FALSE)
     ELSE IF id = 0
       THEN Outcome(store, Response("reset", 400, Msg_resetInvalid), FALSE)
     ELSE Outcome([store EXCEPT ![id].password = BcryptHash(password, salt),
                                ![id].isVerified = FALSE,
                                ![id].resetToken = NullToken,
                                ![id].tokenExpires = NullDate],
                  Response("reset", 200, "Password reset successful"), FALSE)

resetPassword(store, t, token, password, salt) ==
  LET id == ByLiveResetToken(store, token, t)
  IN IF token = NullToken \/ password = <<>>
       THEN Outcome(store, Response("reset", 400, "Token and password are required"), FALSE)
     ELSE IF Len(password) < MIN_PASSWORD
       THEN Outcome(store, Response("reset", 400, "Password must be at least 6 characters"), FALSE)
     ELSE IF id = 0
       THEN Outcome(store, Response("reset", 400, Msg_resetInvalid), FALSE)
     ELSE Outcome([store EXCEPT ![id].password = BcryptHash(password, salt),
                                ![id].resetToken = NullToken,
                                ![id].tokenExpires = NullDate],
                  Response("reset", 200, "Password reset successful"), FALSE)

\* middlewares/auth.middleware.js, the revision that does not look the user up
authMiddleware_noLookup(store, t, bearer) ==
  IF bearer = NoSession THEN [status |-> 401, msg |-> "Unauthorized: No token provided"]
  ELSE LET decoded == CHOOSE d \in bearer : TRUE
       IN IF decoded.secret # JWT_SECRET \/ decoded.exp <= t
            THEN [status |-> 401, msg |-> "Unauthorized: Invalid token"]
          ELSE [status |-> 0, msg |-> ""]

\* the guard whose catch block answers every jwt.verify error alike
authMiddleware_oneReason(store, t, bearer) ==
  IF bearer = NoSession THEN [status |-> 401, msg |-> "Unauthorized: No token provided"]
  ELSE LET decoded == CHOOSE d \in bearer : TRUE
       IN IF decoded.secret # JWT_SECRET \/ decoded.exp <= t
            THEN [status |-> 401, msg |-> "Unauthorized: Invalid token"]
          ELSE IF decoded.userId \notin 1..Len(store)
            THEN [status |-> 401, msg |-> "Unauthorized: User not found"]
          ELSE IF ~store[decoded.userId].isVerified
            THEN [status |-> 401, msg |-> "Unauthorized: Email not verified"]
          ELSE [status |-> 0, msg |-> ""]

\* middlewares/auth.middleware.js (the revision that looks the user up):
\* the status it answers with, 0 when it calls next().  bearer is the set
\* holding the session token of the Authorization header, {} without one
\* or without the Bearer scheme.
authMiddleware(store, t, bearer) ==
  IF bearer = NoSession THEN [status |-> 401, msg |-> "Unauthorized: No token provided"]
  ELSE LET decoded == CHOOSE d \in bearer : TRUE
       \* jwt.verify checks the signature, then the expiry
       IN IF decoded.secret # JWT_SECRET
            THEN [status |-> 401, msg |-> "Unauthorized: Invalid token"]
          ELSE IF decoded.exp <= t
            THEN [status |-> 401, msg |-> "Unauthorized: Token expired"]
          ELSE IF decoded.userId \notin 1..Len(store)
            THEN [status |-> 401, msg |-> "Unauthorized: User not found"]
          ELSE IF ~store[decoded.userId].isVerified
            THEN [status |-> 401, msg |-> "Unauthorized: Email not verified"]
          ELSE [status |-> 0, msg |-> ""]

\* updateProfile whose filter is { _id: userId } alone
updateProfileHandler_anyTenant(store, decoded, reqTenantId, name, avatarURL) ==
  LET userId == decoded.userId
  IN IF userId \notin 1..Len(store)
       THEN Outcome(store, Response("profile", 404, "User not found"), FALSE)
     ELSE LET updated == [store EXCEPT ![userId].name = name,
                                       ![userId].avatarURL = avatarURL]
          IN Outcome(updated,
                     WithUser(Response("profile", 200, "Profile updated"),
                              Select(updated[userId], {"password", "resetToken", "verificationToken"})),
                     FALSE)

\* updateProfile that answers with the document as it is stored
updateProfileHandler_unselected(store, decoded, reqTenantId, name, avatarURL) ==
  LET userId == decoded.userId
      tenantId == IF decoded.tenantId # Undefined THEN decoded.tenantId
                  ELSE ControllerTenant(reqTenantId)
      found == userId \in 1..Len(store) /\ store[userId].tenantId = tenantId
  IN IF ~found
       THEN Outcome(store, Response("profile", 404, "User not found"), FALSE)
     ELSE LET updated == [store EXCEPT ![userId].name = name,
                                       ![userId].avatarURL = avatarURL]
          IN Outcome(updated,
                     WithUser(Response("profile", 200, "Profile updated"), updated[userId]),
                     FALSE)

\* controllers/auth.controller.js updateProfile, given req.user = decoded and
\* req.tenantId: findOneAndUpdate({ _id: userId, tenantId }, { name, avatarURL })
updateProfileHandler(store, decoded, reqTenantId, name, avatarURL) ==
  LET userId == decoded.userId
      \* req.user.tenantId || req.tenantId || 'default'
      tenantId == IF decoded.tenantId # Undefined THEN decoded.tenantId
                  ELSE ControllerTenant(reqTenantId)
      found == userId \in 1..Len(store) /\ store[userId].tenantId = tenantId
  IN IF ~found
       THEN Outcome(store, Response("profile", 404, "User not found"), FALSE)
     ELSE LET updated == [store EXCEPT ![userId].name = name,
                                       ![userId].avatarURL = avatarURL]
          IN Outcome(updated,
                     WithUser(Response("profile", 200, "Profile updated"),
                              Select(updated[userId], {"password", "resetToken", "verificationToken"})),
                     FALSE)

\* router.put("/me", authMiddleware, authController.updateProfile)
updateProfile(store, t, bearer, name, avatarURL) ==
  LET guard == authMiddleware(store, t, bearer)
      decoded == CHOOSE d \in bearer : TRUE
      \* the guard's req.tenantId = decoded.tenantId || user.tenantId || 'default'
      reqTenantId == IF decoded.tenantId # Undefined THEN decoded.tenantId
                     ELSE store[decoded.userId].tenantId
  IN IF guard.status # 0
       THEN Outcome(store, Response("profile", guard.status, guard.msg), FALSE)
     ELSE updateProfileHandler(store, decoded, reqTenantId, name, avatarURL)

\* requireRole(role): the status it answers with, 0 when it calls next();
\* reqUser is {} when no middleware set req.user, else holds the claims
requireRole(role, reqUser) ==
  IF reqUser = {} \/ \E d \in reqUser : d.role # role
    THEN [status |-> 403, msg |-> "Forbidden: Insufficient role permissions"]
    ELSE [status |-> 0, msg |-> ""]

\* GET /admin with requireRole mounted before authMiddleware
adminPanel_roleFirst(store, t, bearer) ==
  LET role == requireRole("admin", {})
      guard == authMiddleware(store, t, bearer)
  IN IF role.status # 0 THEN Outcome(store, Response("admin", role.status, role.msg), FALSE)
     ELSE IF guard.status # 0
       THEN Outcome(store, Response("admin", guard.status, guard.msg), FALSE)
     ELSE Outcome(store, Response("admin", 200, "Welcome to admin panel"), FALSE)

\* router.get("/admin", authMiddleware, requireRole("admin"), handler)
adminPanel(store, t, bearer) ==
  LET guard == authMiddleware(store, t, bearer)
      \* the guard sets req.user = decoded before next()
      role == requireRole("admin", bearer)
  IN IF guard.status # 0
       THEN Outcome(store, Response("admin", guard.status, guard.msg), FALSE)
     ELSE IF role.status # 0
       THEN Outcome(store, Response("admin", role.status, role.msg), FALSE)
     ELSE Outcome(store, Response("admin", 200, "Welcome to admin panel"), FALSE)

----------------------------------------------------------------------------
(* The sequential system: every request is handled to completion before    *)
(* the next one arrives.                                                    *)

Procs == {1, 2}

\* a request handler that is not running: pc is the await it is suspended at,
\* id the document it loaded, then its request's inputs and its response;
\* overlap tells that another handler was running while this one was
Idle == [ pc |-> "idle", id |-> 0, name |-> "", email |-> <<>>, password |-> <<>>,
          token |-> NullToken, op |-> "none", status |-> 0, msg |-> "",
          overlap |-> FALSE ]

\* request bodies: the well-formed ones, and some with one bad field
RegisterBodies ==
  [name : ValidNames, email : {Email_a}, password : ValidPasswords]
    \cup [name : ValidNames, email : {Email_b, Email_A, <<>>}, password : {Pw_1}]
    \cup [name : ValidNames, email : {Email_a}, password : {Pw_short}]

LoginBodies ==
  [email : ValidEmails, password : ValidPasswords]
    \cup [email : {Email_a}, password : {Pw_short, <<>>}]

ResetBodies ==
  [token : PresentedTokens \ {NullToken}, password : ValidPasswords]
    \cup [token : {NullToken}, password : {Pw_1}]
    \cup [token : {1, 2}, password : {Pw_short, <<>>}]

\* requests: every body under the first tenant header, and the bodies of one
\* email under the second
RequestsOf(bodies) ==
  {[hdr |-> Tenant_1, body |-> b] : b \in bodies}
    \cup {[hdr |-> Tenant_2, body |-> b] : b \in {c \in bodies : c.email = Email_a}}

RegisterRequests == RequestsOf(RegisterBodies)
LoginRequests == RequestsOf(LoginBodies)
ForgotRequests == RequestsOf([email : RawEmails])

Init ==
  /\ users = <<>>
  /\ now = 0
  /\ nextToken = 1
  /\ held = {}
  /\ res = Response("none", 0, "")
  /\ procs = [p \in Procs |-> Idle]

\* the handler's outcome becomes the state
Commit(r) ==
  /\ Len(r.users) <= MaxUsers
  /\ r.minted => nextToken <= MaxTokens
  /\ users' = r.users
  /\ nextToken' = IF r.minted THEN nextToken + 1 ELSE nextToken
  /\ res' = r.res

DoRegister(hdr, q, salt, mailOk) ==
  /\ Commit(registerUser(users, now, nextToken, RequestTenantId(hdr), q.name,
                         q.email, q.password, salt, mailOk))
  /\ UNCHANGED <<now, held, procs>>

DoLogin(hdr, q, keep) ==
  LET r == loginUser(users, now, RequestTenantId(hdr), q.email, q.password)
  IN /\ Commit(r)
     \* the client keeps the session token while it has room for one
     /\ held' = IF keep /\ Cardinality(held) < MaxSessions
                  THEN held \cup r.res.session ELSE held
     /\ UNCHANGED <<now, procs>>

DoVerifyEmail(token) ==
  /\ Commit(verifyEmail(users, now, token))
  /\ UNCHANGED <<now, held, procs>>

DoForgotPassword(hdr, email, mailOk) ==
  /\ Commit(forgotPassword(users, now, nextToken, RequestTenantId(hdr), email, mailOk))
  /\ UNCHANGED <<now, held, procs>>

DoResetPassword(q, salt) ==
  /\ Commit(resetPassword(users, now, q.token, q.password, salt))
  /\ UNCHANGED <<now, held, procs>>

DoUpdateProfile(bearer, name, avatarURL) ==
  LET r == updateProfile(users, now, bearer, name, avatarURL)
  IN /\ Commit([r EXCEPT !.res.session = bearer])
     /\ UNCHANGED <<now, held, procs>>

DoAdminPanel(bearer) ==
  LET r == adminPanel(users, now, bearer)
  IN /\ Commit([r EXCEPT !.res.session = bearer])
     /\ UNCHANGED <<now, held, procs>>

\* the clock: new Date() / Date.now() read a later time
Tick ==
  /\ now + ClockStep <= MaxTime
  /\ now' = now + ClockStep
  /\ UNCHANGED <<users, nextToken, held, res, procs>>

Register ==
  \E q \in RegisterRequests, salt \in Salts, mailOk \in BOOLEAN :
    DoRegister(q.hdr, q.body, salt, mailOk)

Login == \E q \in LoginRequests : DoLogin(q.hdr, q.body, FALSE)

VerifyEmail == \E token \in PresentedTokens : DoVerifyEmail(token)

ForgotPassword ==
  \E q \in ForgotRequests, mailOk \in BOOLEAN :
    DoForgotPassword(q.hdr, q.body.email, mailOk)

ResetPassword == \E q \in ResetBodies, salt \in Salts : DoResetPassword(q, salt)

Next ==
  \/ Register
  \/ Login
  \/ VerifyEmail
  \/ ForgotPassword
  \/ ResetPassword
  \/ Tick

Spec == Init /\ [][Next]_vars

----------------------------------------------------------------------------
(* The system with session tokens in use: clients keep the token a Login    *)
(* returns and present it to the guarded profile route.                     *)

SessionRegisterBodies == [name : ValidNames, email : {Email_a, Email_b}, password : {Pw_1}]
SessionLoginBodies == [email : {Email_a, Email_b}, password : ValidPasswords]
SessionResetBodies == [token : 1..BogusToken, password : {Pw_2}]

SessionRegister ==
  \E q \in SessionRegisterBodies, salt \in Salts, mailOk \in BOOLEAN :
    DoRegister(Tenant_1, q, salt, mailOk)

SessionLogin == \E q \in SessionLoginBodies : DoLogin(Tenant_1, q, TRUE)

SessionForgotPassword == \E email \in {Email_a} : DoForgotPassword(Tenant_1, email, TRUE)

SessionResetPassword == \E q \in SessionResetBodies, salt \in Salts : DoResetPassword(q, salt)

\* Authorization headers a client sends: none, a token it holds, or that
\* token's claims signed with a key of its own
Bearers ==
  {NoSession} \cup {{s} : s \in held} \cup {{[s EXCEPT !.secret = OtherSecret]} : s \in held}

UpdateProfile ==
  \E bearer \in Bearers, name \in ProfileNames, avatarURL \in Avatars :
    DoUpdateProfile(bearer, name, avatarURL)

AdminPanel == \E bearer \in Bearers : DoAdminPanel(bearer)

NextSession ==
  \/ SessionRegister
  \/ SessionLogin
  \/ VerifyEmail
  \/ SessionForgotPassword
  \/ SessionResetPassword
  \/ UpdateProfile
  \/ AdminPanel
  \/ Tick

SpecSession == Init /\ [][NextSession]_vars

----------------------------------------------------------------------------
(* The system of one account and its passwords, some of them longer than    *)
(* what bcrypt reads: registerSchema and resetPassword bound the length of  *)
(* a password from below only.                                              *)

\* two passwords of 73 characters that differ in the last one
Pw_long_1 == [i \in 1..73 |-> IF i = 73 THEN "1" ELSE "p"]
Pw_long_2 == [i \in 1..73 |-> IF i = 73 THEN "2" ELSE "p"]

LifecyclePasswords == {Pw_1, Pw_2, Pw_long_1, Pw_long_2}
LifecycleRegisterBodies == [name : ValidNames, email : {Email_a}, password : {Pw_1, Pw_long_1}]
LifecycleLoginBodies == [email : {Email_a}, password : LifecyclePasswords]
LifecycleResetBodies == [token : 1..MaxTokens, password : {Pw_2, Pw_long_2}]

LifecycleRegister ==
  \E q \in LifecycleRegisterBodies, salt \in Salts : DoRegister(Tenant_1, q, salt, TRUE)

LifecycleLogin == \E q \in LifecycleLoginBodies : DoLogin(Tenant_1, q, FALSE)

LifecycleForgotPassword == DoForgotPassword(Tenant_1, Email_a, TRUE)

LifecycleResetPassword ==
  \E q \in LifecycleResetBodies, salt \in Salts : DoResetPassword(q, salt)

NextLifecycle ==
  \/ LifecycleRegister
  \/ LifecycleLogin
  \/ VerifyEmail
  \/ LifecycleForgotPassword
  \/ LifecycleResetPassword
  \/ Tick

SpecLifecycle == Init /\ [][NextLifecycle]_vars

----------------------------------------------------------------------------
(* The system with two requests in flight: a handler runs up to its lookup  *)
(* (await User.findOne), is suspended, and later runs from there to its     *)
(* write (await user.save()); the other handler's steps may come between.   *)

ConcTenant == Tenant_1
ConcRegisterBodies == [name : ValidNames, email : {Email_a, Email_A}, password : {Pw_1}]
ConcTokens == {1, 2}
ConcResetBodies == [token : ConcTokens, password : ValidPasswords]

Running(p) == procs[p].pc # "idle"

\* handler p starts on request rec; it and every running handler overlap
Start(p, rec) ==
  procs' = [r \in Procs |->
              IF r = p THEN [rec EXCEPT !.overlap = \E o \in Procs \ {p} : Running(o)]
              ELSE IF Running(r) THEN [procs[r] EXCEPT !.overlap = TRUE]
              ELSE procs[r]]

\* handler p answers
Finish(p, status, msg) ==
  procs' = [procs EXCEPT ![p].pc = "idle", ![p].status = status, ![p].msg = msg]

\* registerUser up to `await User.findOne({ email, tenantId })` and the 409
ConcRegisterFind(p, q) ==
  LET r == registerUser(users, now, nextToken, RequestTenantId(ConcTenant),
                        q.name, q.email, q.password, 1, TRUE).res
      rec == [Idle EXCEPT !.op = "register", !.name = q.name, !.email = q.email,
                          !.password = q.password]
  IN /\ ~Running(p)
     /\ Start(p, IF r.status = 201 THEN [rec EXCEPT !.pc = "register_save"]
                 ELSE [rec EXCEPT !.status = r.status, !.msg = r.msg])
     /\ UNCHANGED <<users, now, nextToken, held, res>>

\* registerUser from bcrypt.hash to `await newUser.save()`, then on to
\* `await sendEmail(...)`, where it is suspended until the mailer settles
ConcRegisterSave(p, salt) ==
  LET newUser == NewUser(procs[p].name, NormalizeEmail(procs[p].email),
                         BcryptHash(procs[p].password, salt),
                         ControllerTenant(RequestTenantId(ConcTenant)),
                         nextToken, now + VERIFY_TTL)
  IN /\ procs[p].pc = "register_save"
     /\ Len(users) < MaxUsers /\ nextToken <= MaxTokens
     /\ users' = Append(users, newUser)
     /\ nextToken' = nextToken + 1
     /\ procs' = [procs EXCEPT ![p].pc = "register_mail"]
     /\ UNCHANGED <<now, held, res>>

\* the mailer settles the promise of sendEmail (resolved or rejected, the
\* rejection being caught and logged); registerUser resumes and answers 201
ConcRegisterMailed(p, mailOk) ==
  /\ procs[p].pc = "register_mail"
  /\ Finish(p, 201, "User registered successfully. Please check your email to verify your account.")
  /\ UNCHANGED <<users, now, nextToken, held, res>>

\* verifyEmail up to its lookups and the 400s
ConcVerifyFind(p, token) ==
  LET r == verifyEmail(users, now, token).res
      rec == [Idle EXCEPT !.op = "verify", !.token = token]
  IN /\ ~Running(p)
     /\ Start(p, IF r.status = 200
                   THEN [rec EXCEPT !.pc = "verify_save",
                                    !.id = ByLiveVerificationToken(users, token, now)]
                 ELSE [rec EXCEPT !.status = r.status, !.msg = r.msg])
     /\ UNCHANGED <<users, now, nextToken, held, res>>

\* verifyEmail from `user.isVerified = true` to `await user.save()`: the
\* save writes the paths the handler assigned to the document of that _id
ConcVerifySave(p) ==
  /\ procs[p].pc = "verify_save"
  /\ users' = [users EXCEPT ![procs[p].id].isVerified = TRUE,
                            ![procs[p].id].verificationToken = NullToken,
                            ![procs[p].id].tokenExpires = NullDate]
  /\ Finish(p, 200, "Email Verified Successfully!")
  /\ UNCHANGED <<now, nextToken, held, res>>

\* resetPassword up to `await User.findOne({ resetToken, tokenExpires })`
ConcResetFind(p, q) ==
  LET r == resetPassword(users, now, q.token, q.password, 1).res
      rec == [Idle EXCEPT !.op = "reset", !.token = q.token, !.password = q.password]
  IN /\ ~Running(p)
     /\ Start(p, IF r.status = 200
                   THEN [rec EXCEPT !.pc = "reset_save",
                                    !.id = ByLiveResetToken(users, q.token, now)]
                 ELSE [rec EXCEPT !.status = r.status, !.msg = r.msg])
     /\ UNCHANGED <<users, now, nextToken, held, res>>

\* resetPassword from bcrypt.hash to `await user.save()`
ConcResetSave(p, salt) ==
  /\ procs[p].pc = "reset_save"
  /\ users' = [users EXCEPT ![procs[p].id].password = BcryptHash(procs[p].password, salt),
                            ![procs[p].id].resetToken = NullToken,
                            ![procs[p].id].tokenExpires = NullDate]
  /\ Finish(p, 200, "Password reset successful")
  /\ UNCHANGED <<now, nextToken, held, res>>

ConcRegister ==
  \E p \in Procs :
    \/ \E q \in ConcRegisterBodies : ConcRegisterFind(p, q)
    \/ \E salt \in Salts : ConcRegisterSave(p, salt)
    \/ \E mailOk \in BOOLEAN : ConcRegisterMailed(p, mailOk)

ConcVerifyEmail ==
  \E p \in Procs :
    \/ \E token \in ConcTokens : ConcVerifyFind(p, token)
    \/ ConcVerifySave(p)

ConcResetPassword ==
  \E p \in Procs :
    \/ \E q \in ConcResetBodies : ConcResetFind(p, q)
    \/ \E salt \in Salts : ConcResetSave(p, salt)

\* a Forgot Password served between the steps of the others
ConcForgotPassword == DoForgotPassword(ConcTenant, Email_a, TRUE)

NextConc ==
  \/ ConcRegister
  \/ ConcVerifyEmail
  \/ ConcResetPassword
  \/ ConcForgotPassword

SpecConc == Init /\ [][NextConc]_vars

\* the steps the server takes by itself once the database has answered; the
\* mailer's answer (ConcRegisterMailed) is not among them
ServerStep(p) ==
  \/ \E salt \in Salts : ConcRegisterSave(p, salt)
  \/ ConcVerifySave(p)
  \/ \E salt \in Salts : ConcResetSave(p, salt)

\* the event loop resumes every handler whose database call has returned;
\* nothing makes the mail transport answer
SpecMailer == SpecConc /\ \A p \in Procs : WF_vars(ServerStep(p))

----------------------------------------------------------------------------
(* The system of one account and the documented endpoint                    *)
(* POST /api/auth/resend-verification: the router has no route of that      *)
(* path, so the request falls through to the server's handler for unknown   *)
(* API paths.                                                               *)

Msg_apiNotFound == "API endpoint not found"

\* app.use('/api/*', ...): the answer to a request no route took
apiNotFound(store, op) == Outcome(store, Response(op, 404, Msg_apiNotFound), FALSE)

DoResendVerification(hdr, rawEmail) ==
  /\ Commit(apiNotFound(users, "resend"))
  /\ UNCHANGED <<now, held, procs>>

\* the request's X-Tenant-ID header may be absent
ResendHeaders == {Undefined, Tenant_1}

ResendVerification ==
  \E hdr \in ResendHeaders, email \in {Email_a, Email_b} : DoResendVerification(hdr, email)

NextResend ==
  \/ LifecycleRegister
  \/ LifecycleLogin
  \/ VerifyEmail
  \/ LifecycleForgotPassword
  \/ LifecycleResetPassword
  \/ ResendVerification
  \/ Tick

SpecResend == Init /\ [][NextResend]_vars

----------------------------------------------------------------------------
(* The system of accounts that all register at the start of the clock: the  *)
(* time any verification token was minted is then 0, and what happens to    *)
(* the token's lifetime afterwards can be read off the clock.               *)

\* the time of every Register of this system
Epoch == 0

EpochRegisterBodies == [name : ValidNames, email : {Email_a, Email_b}, password : {Pw_1}]
EpochResetBodies == [token : 1..MaxTokens, password : {Pw_2}]

EpochRegister ==
  /\ now = Epoch
  /\ \E q \in EpochRegisterBodies, salt \in Salts : DoRegister(Tenant_1, q, salt, TRUE)

EpochForgotPassword ==
  \E email \in {Email_a, Email_b}, mailOk \in BOOLEAN : DoForgotPassword(Tenant_1, email, mailOk)

EpochResetPassword ==
  \E q \in EpochResetBodies, salt \in Salts : DoResetPassword(q, salt)

EpochLogin == \E email \in {Email_a, Email_b} : DoLogin(Tenant_1, [email |-> email, password |-> Pw_1], FALSE)

NextEpoch ==
  \/ EpochRegister
  \/ VerifyEmail
  \/ EpochForgotPassword
  \/ EpochResetPassword
  \/ EpochLogin
  \/ Tick

SpecEpoch == Init /\ [][NextEpoch]_vars

----------------------------------------------------------------------------
(* The tenant resolver on its own: one request after another passes through *)
(* tenantMiddleware, which attaches req.tenantId.  A header value reaches   *)
(* the middleware without surrounding white space (the HTTP parser strips   *)
(* it); a query parameter reaches it as the URL decodes, so ?tenantId=%20   *)
(* is the string of one blank.                                              *)

App_1 == <<"A", "x">>
Blank == <<" ">>
XTenantIdValues == {Undefined, Tenant_1, Tenant_2, <<"S", "2">>}
XAppNameValues == {Undefined, App_1, Tenant_1, Tenant_2}
QueryTenantIdValues == {Undefined, Tenant_1, Tenant_2, <<"S", "1", " ">>, Blank, <<" ", "s", "2">>, App_1}

\* nobody called the middleware yet
NoTenantRequest == [op |-> "none"]

DoTenantMiddleware(xTenantId, xAppName, queryTenantId) ==
  /\ res' = [ op |-> "tenant",
              xTenantId |-> xTenantId,
              xAppName |-> xAppName,
              queryTenantId |-> queryTenantId,
              tenantId |-> tenantMiddleware(xTenantId, xAppName, queryTenantId),
              next |-> TRUE ]
  /\ UNCHANGED <<users, now, nextToken, held, procs>>

ResolveTenant ==
  \E x \in XTenantIdValues, a \in XAppNameValues, q \in QueryTenantIdValues :
    DoTenantMiddleware(x, a, q)

InitTenant ==
  /\ users = <<>>
  /\ now = 0
  /\ nextToken = 1
  /\ held = {}
  /\ res = NoTenantRequest
  /\ procs = [p \in Procs |-> Idle]

NextTenant == ResolveTenant

SpecTenant == InitTenant /\ [][NextTenant]_vars

----------------------------------------------------------------------------
(* Vocabulary of the properties *)

Ids == 1..Len(users)

\* the tenant a request carrying X-Tenant-ID hdr addresses
TenantOf(hdr) == tenantMiddleware(hdr, Undefined, Undefined)

\* the account of (tenant, email), as a set of ids
Accounts(store, tenant, rawEmail) ==
  {i \in 1..Len(store) : store[i].tenantId = tenant /\ store[i].email = NormalizeEmail(rawEmail)}

\* what Login answers in the current state
LoginNow(hdr, rawEmail, password) ==
  loginUser(users, now, RequestTenantId(hdr), rawEmail, password).res

----------------------------------------------------------------------------
(* C1: Login answers 200 with a session token only for a user whose         *)
(* isVerified is true, and no session token is ever in a client's hands for *)
(* a user that is not verified, whatever Register, Forgot Password, Reset   *)
(* Password and Update Profile requests were served.                        *)

C1_VerificationGate ==
  /\ \A hdr \in TenantHeaders, q \in LoginBodies :
       LET r == LoginNow(hdr, q.email, q.password)
       IN r.status = 200 =>
            /\ r.session # NoSession
            /\ \A s \in r.session : s.userId \in Ids /\ users[s.userId].isVerified
  /\ res.op = "login" /\ res.session # NoSession => res.status = 200
  /\ \A s \in held : s.userId \in Ids /\ users[s.userId].isVerified

\* a Login succeeded and its token is held while another account is still
\* unverified, and a profile has been updated
C1_Witness ==
  /\ res.op = "login" /\ res.status = 200
  /\ held # {}
  /\ \E i \in Ids : ~users[i].isVerified
  /\ \E i \in Ids : users[i].avatarURL # NoAvatar

----------------------------------------------------------------------------
(* C2: tenant isolation of Register.  Register(e) under the header of a     *)
(* tenant answers 409 and creates nothing exactly when that tenant already  *)
(* holds an account for e, and 201 with one new record otherwise (so the    *)
(* same email registers in tenant A and then in tenant B); no two records   *)
(* share (tenantId, email).                                                 *)

C2_TenantIsolationOfRegister ==
  /\ \A hdr \in TenantHeaders, e \in ValidEmails, salt \in Salts :
       LET r == registerUser(users, now, nextToken, RequestTenantId(hdr),
                             "Al", e, Pw_1, salt, TRUE)
       IN IF Accounts(users, TenantOf(hdr), e) # {}
            THEN r.res.status = 409 /\ r.users = users
            ELSE r.res.status = 201 /\ Len(r.users) = Len(users) + 1
  /\ \A i, j \in Ids :
       users[i].tenantId = users[j].tenantId /\ users[i].email = users[j].email => i = j

----------------------------------------------------------------------------
(* C4: a verification token is single-use.  A Verify Email that succeeds    *)
(* with a token sets isVerified and clears verificationToken and            *)
(* tokenExpires of the token's user, and presenting the same token again    *)
(* right after fails with 400 and the 'invalid' message; a stored,          *)
(* unexpired verification token is accepted.                                *)

C4_SingleUseVerificationToken ==
  [][ /\ \A token \in PresentedTokens \ {NullToken} :
           (\E i \in Ids : users[i].verificationToken = token /\ ExpiryAfter(users[i], now))
             => verifyEmail(users, now, token).res.status = 200
      /\ res'.op = "verify" /\ res'.status = 200 =>
           \A token \in PresentedTokens :
             DoVerifyEmail(token) =>
               /\ \E i \in Ids : /\ users[i].verificationToken = token
                                 /\ users'[i].isVerified
                                 /\ users'[i].verificationToken = NullToken
                                 /\ users'[i].tokenExpires = NullDate
               /\ LET second == verifyEmail(users', now', token)
                  IN /\ second.res.status = 400
                     /\ second.res.msg = Msg_tokenInvalid
                     /\ second.users = users' ]_vars

\* a Verify Email has just succeeded and consumed its token
C4_Witness ==
  /\ res.op = "verify" /\ res.status = 200
  /\ \E i \in Ids : users[i].isVerified /\ users[i].verificationToken = NullToken

----------------------------------------------------------------------------
(* C6: the verification flow end to end.  Right after a Register answers    *)
(* 201, Login with the registered email and password answers 401 with       *)
(* needsVerification; every Login for an unverified account does; and right *)
(* after Verify Email succeeds with an account's verification token, Login  *)
(* with that account's email and password answers 200 with a session token. *)

\* the X-Tenant-ID headers under which the controller addresses store[i]
HeadersReaching(store, i) ==
  {hdr \in TenantHeaders : ControllerTenant(RequestTenantId(hdr)) = store[i].tenantId}

C6_VerificationFlow ==
  [][ /\ res'.op = "register" /\ res'.status = 201 =>
           \A q \in RegisterRequests, salt \in Salts, mailOk \in BOOLEAN :
             DoRegister(q.hdr, q.body, salt, mailOk) =>
               LET before == loginUser(users', now', RequestTenantId(q.hdr),
                                       q.body.email, q.body.password).res
                   \* nextToken is the token this Register minted and mailed
                   verified == verifyEmail(users', now', nextToken)
                   after == loginUser(verified.users, now', RequestTenantId(q.hdr),
                                      q.body.email, q.body.password).res
               IN /\ Len(users') = Len(users) + 1
                  /\ ~users'[Len(users')].isVerified
                  /\ before.status = 401 /\ before.needsVerification
                  /\ before.session = NoSession
                  /\ verified.res.status = 200
                  /\ after.status = 200
                  /\ \E s \in after.session : s.userId = Len(users')
      /\ res'.op = "verify" /\ res'.status = 200 =>
           \A token \in PresentedTokens :
             DoVerifyEmail(token) =>
               \A i \in Ids : users[i].verificationToken = token =>
                 /\ HeadersReaching(users', i) # {}
                 /\ \A hdr \in HeadersReaching(users', i), pw \in Passwords :
                      BcryptCompare(pw, users[i].password) =>
                        LET r == loginUser(users', now', RequestTenantId(hdr),
                                           users[i].email, pw).res
                        IN /\ r.status = 200
                           /\ \E s \in r.session : s.userId = i ]_vars

\* a Login answered 200 for an account that went through Verify Email
C6_Witness ==
  /\ res.op = "login" /\ res.status = 200
  /\ \E s \in res.session : users[s.userId].isVerified
                            /\ users[s.userId].verificationToken = NullToken

----------------------------------------------------------------------------
(* C7 as stated: Login with an email that has no account and Login with an  *)
(* email that has an account, verified or not, plus a wrong password answer *)
(* with the same status code and the same message.  (Accounts are those of  *)
(* the tenant the controller resolves the request to.)                      *)

\* the accounts Login looks among for a request under hdr
LoginAccounts(hdr, rawEmail) ==
  Accounts(users, ControllerTenant(RequestTenantId(hdr)), rawEmail)

SameAnswer(r1, r2) == r1.status = r2.status /\ r1.msg = r2.msg

C7_EnumerationResistance_AnyAccount ==
  \A hdr \in TenantHeaders, e1, e2 \in ValidEmails, p1, p2 \in ValidPasswords \cup {Pw_short} :
    /\ LoginAccounts(hdr, e1) = {}
    /\ \E i \in LoginAccounts(hdr, e2) : ~BcryptCompare(p2, users[i].password)
    => SameAnswer(LoginNow(hdr, e1, p1), LoginNow(hdr, e2, p2))

(* C7 amended: Login with an email that has no account and Login with an    *)
(* email that has a VERIFIED account plus a wrong password answer with the  *)
(* same status code (401) and the same message; for an unverified account   *)
(* the status code is the same and the message is the verification one.     *)

C7_EnumerationResistance ==
  \A hdr \in TenantHeaders, e1 \in ValidEmails :
    LoginAccounts(hdr, e1) = {} =>
      \A e2 \in ValidEmails, p2 \in ValidPasswords \cup {Pw_short} :
        (\E i \in LoginAccounts(hdr, e2) : ~BcryptCompare(p2, users[i].password)) =>
          \A p1 \in ValidPasswords \cup {Pw_short} :
            /\ LoginNow(hdr, e1, p1).status = 401
            /\ LoginNow(hdr, e2, p2).status = 401
            /\ IF \E i \in LoginAccounts(hdr, e2) : users[i].isVerified
                 THEN SameAnswer(LoginNow(hdr, e1, p1), LoginNow(hdr, e2, p2))
                 ELSE LoginNow(hdr, e2, p2).msg = Msg_needsVerification

\* a Login with a wrong password for a verified account was refused while
\* another email has no account
C7_Witness ==
  /\ res.op = "login" /\ res.status = 401 /\ res.msg = Msg_invalidCredentials
  /\ Len(users) = 1 /\ users[1].isVerified
  /\ LoginAccounts(Tenant_1, Email_b) = {}
  /\ res = LoginNow(Tenant_1, users[1].email, Pw_2)
  /\ ~BcryptCompare(Pw_2, users[1].password)

----------------------------------------------------------------------------
(* C8: cross-tenant authentication isolation.  Login under the header of    *)
(* tenant B answers 200 only for an account registered and verified in B    *)
(* (401 otherwise), and Forgot Password under the header of B answers 404   *)
(* for an email that has no account in B.                                   *)

C8_CrossTenantIsolation ==
  \A hdr \in TenantHeaders, e \in ValidEmails :
    /\ \A pw \in ValidPasswords :
         (~ \E i \in Accounts(users, TenantOf(hdr), e) : users[i].isVerified)
           => LoginNow(hdr, e, pw).status = 401
    /\ Accounts(users, TenantOf(hdr), e) = {}
         => forgotPassword(users, now, nextToken, RequestTenantId(hdr), e, TRUE).res.status = 404

----------------------------------------------------------------------------
(* C9: reset token overwrite.  When Forgot Password answers 200 for a user  *)
(* that already had a reset token pending, the earlier token no longer      *)
(* validates in Reset Password (400) and the user's password can only be    *)
(* reset with the newly minted token, which is accepted.                    *)

C9_ResetTokenOverwrite ==
  [][ res'.op = "forgot" /\ res'.status = 200 =>
        \A q \in ForgotRequests :
          DoForgotPassword(q.hdr, q.body.email, TRUE) =>
            LET i == ByEmailTenant(users, NormalizeEmail(q.body.email),
                                   ControllerTenant(RequestTenantId(q.hdr)))
                first == users[i].resetToken
            IN /\ i \in Ids
               /\ \A pw \in ValidPasswords, salt \in Salts :
                    /\ first # NullToken =>
                         /\ resetPassword(users', now', first, pw, salt).res.status = 400
                         /\ resetPassword(users', now', first, pw, salt).users = users'
                    /\ resetPassword(users', now', nextToken, pw, salt).res.status = 200
                    /\ \A t \in PresentedTokens \ {nextToken} :
                         resetPassword(users', now', t, pw, salt).users[i] = users'[i] ]_vars

\* Forgot Password has answered 200 twice for the only user
C9_Witness ==
  /\ res.op = "forgot" /\ res.status = 200
  /\ Len(users) = 1 /\ nextToken = 4 /\ users[1].resetToken = 3

----------------------------------------------------------------------------
(* C10: expired versus unknown verification token.  Verify Email with a     *)
(* token equal to a stored verificationToken whose tokenExpires is in the   *)
(* past answers 400 with the 'expired' message; with a token that no record *)
(* holds it answers 400 with the 'invalid' message; neither changes the     *)
(* store.                                                                   *)

C10_ExpiredVersusUnknown ==
  \A token \in PresentedTokens \ {NullToken} :
    LET r == verifyEmail(users, now, token)
    IN /\ (\E i \in Ids : /\ users[i].verificationToken = token
                          /\ users[i].tokenExpires # NullDate
                          /\ users[i].tokenExpires < now)
            => r.res.status = 400 /\ r.res.msg = Msg_tokenExpired /\ r.users = users
       /\ (\A i \in Ids : users[i].verificationToken # token)
            => r.res.status = 400 /\ r.res.msg = Msg_tokenInvalid /\ r.users = users

\* a Verify Email was refused as expired for a token whose expiry has passed
C10_Witness ==
  /\ res.op = "verify" /\ res.status = 400 /\ res.msg = Msg_tokenExpired
  /\ \E i \in Ids : /\ users[i].verificationToken # NullToken
                    /\ users[i].tokenExpires # NullDate
                    /\ users[i].tokenExpires < now

----------------------------------------------------------------------------
(* C3: concurrent Register.  When two Register calls for the same           *)
(* (tenantId, email) overlap, whatever the order of their lookups and       *)
(* writes, they are not both answered 201: one is answered 201 and the      *)
(* other 409 (or both 409 when the account was there before), and the       *)
(* store ends with exactly one record for that (tenantId, email).           *)

\* handlers p and q have both answered, and their requests overlapped
Overlapped(p, q, op) ==
  /\ p # q
  /\ ~Running(p) /\ ~Running(q)
  /\ procs[p].op = op /\ procs[q].op = op
  /\ procs[p].overlap /\ procs[q].overlap

C3_ConcurrentRegister ==
  \A p, q \in Procs :
    /\ Overlapped(p, q, "register")
    /\ NormalizeEmail(procs[p].email) = NormalizeEmail(procs[q].email)
    => /\ {procs[p].status, procs[q].status} \in {{201, 409}, {409}}
       /\ Cardinality(Accounts(users, ControllerTenant(RequestTenantId(ConcTenant)),
                               procs[p].email)) = 1

----------------------------------------------------------------------------
(* C5: concurrent token consumption.  When two Verify Email calls, or two   *)
(* Reset Password calls, presenting the same token overlap, at most one is  *)
(* answered 200 and the other is answered 400; two overlapping Reset        *)
(* Password calls with one token and different passwords are not both       *)
(* answered 200.                                                            *)

C5_ConcurrentTokenConsumption ==
  \A p, q \in Procs :
    /\ Overlapped(p, q, "verify") \/ Overlapped(p, q, "reset")
    /\ procs[p].token = procs[q].token
    /\ procs[p].status = 200
    => procs[q].status = 400

----------------------------------------------------------------------------
(* C11: at most one token purpose pending.  No user record has both         *)
(* verificationToken and resetToken non-null, and a Forgot Password that    *)
(* mints a reset token for a user leaves that user without a verification   *)
(* token.                                                                   *)

C11_OnePurposePending ==
  /\ \A i \in Ids :
       ~(users[i].verificationToken # NullToken /\ users[i].resetToken # NullToken)
  /\ \A hdr \in TenantHeaders, e \in ValidEmails :
       LET r == forgotPassword(users, now, nextToken, RequestTenantId(hdr), e, TRUE)
       IN r.res.status = 200 =>
            \A i \in Ids : r.users[i].resetToken = nextToken =>
                             r.users[i].verificationToken = NullToken

----------------------------------------------------------------------------
(* C12: Register tolerates email failure.  A Register whose body passes     *)
(* validation and whose (tenantId, email) is free answers 201 also when the *)
(* EmailSender fails, and the unverified user is stored with the minted     *)
(* verification token and its expiry.                                       *)

C12_RegisterToleratesEmailFailure ==
  [][ res'.op = "register" =>
      \A q \in RegisterRequests, salt \in Salts :
        /\ DoRegister(q.hdr, q.body, salt, FALSE)
        /\ RegisterSchemaError(q.body.name, q.body.email, q.body.password) = ""
        /\ LoginAccounts(q.hdr, q.body.email) = {}
        => /\ res'.status = 201
           /\ res'.mail = "failed"
           /\ Len(users') = Len(users) + 1
           /\ LET u == users'[Len(users')]
              IN /\ u.email = NormalizeEmail(q.body.email)
                 /\ ~u.isVerified
                 /\ u.verificationToken = nextToken
                 /\ u.tokenExpires = now + VERIFY_TTL
                 /\ BcryptCompare(q.body.password, u.password) ]_vars

\* a Register whose verification email failed has answered 201
C12_Witness ==
  /\ res.op = "register" /\ res.status = 201 /\ res.mail = "failed"
  /\ Len(users) >= 1
  /\ ~users[Len(users)].isVerified
  /\ users[Len(users)].verificationToken = nextToken - 1

----------------------------------------------------------------------------
(* C13: Register is not blocked by the mailer.  A Register that has stored  *)
(* its user and handed the verification email to the EmailSender answers    *)
(* (201) whether or not the send ever returns.                              *)

C13_RegisterNotBlockedByMailer ==
  \A p \in Procs :
    (procs[p].pc = "register_mail") ~> (~Running(p) /\ procs[p].status = 201)

----------------------------------------------------------------------------
(* C14: Forgot Password outcomes.  For a request that carries an email,     *)
(* Forgot Password answers 404 when the caller's tenant holds no user with  *)
(* that email, 500 when it holds one and the EmailSender fails, and 200     *)
(* when it holds one and the email was delivered; it answers 200 in no      *)
(* other case.                                                              *)

C14_ForgotPasswordOutcomes ==
  \A hdr \in TenantHeaders, e \in ValidEmails, mailOk \in BOOLEAN :
    LET r == forgotPassword(users, now, nextToken, RequestTenantId(hdr), e, mailOk).res
    IN r.status = IF Accounts(users, TenantOf(hdr), e) = {} THEN 404
                  ELSE IF ~mailOk THEN 500
                  ELSE 200

----------------------------------------------------------------------------
(* C15: Reset Password effect.  Reset Password with a token equal to a      *)
(* user's stored, unexpired resetToken and a new password of at least 6     *)
(* characters answers 200, replaces that user's password hash with the hash *)
(* of the new password, clears resetToken and tokenExpires and changes      *)
(* nothing else; presenting the same token again answers 400.               *)

C15_ResetPasswordEffect ==
  [][ res'.op = "reset" =>
      \A q \in ResetBodies, salt \in Salts :
        DoResetPassword(q, salt) =>
          \A i \in Ids :
            /\ users[i].resetToken = q.token /\ q.token # NullToken
            /\ ExpiryAfter(users[i], now)
            /\ Len(q.password) >= MIN_PASSWORD
            => /\ res'.status = 200
               /\ users' = [users EXCEPT ![i].password = BcryptHash(q.password, salt),
                                         ![i].resetToken = NullToken,
                                         ![i].tokenExpires = NullDate]
               /\ BcryptCompare(q.password, users'[i].password)
               /\ LET again == resetPassword(users', now', q.token, q.password, salt)
                  IN again.res.status = 400 /\ again.users = users' ]_vars

\* a Reset Password has replaced a password and consumed its token
C15_Witness ==
  /\ res.op = "reset" /\ res.status = 200
  /\ \E i \in Ids : /\ users[i].resetToken = NullToken
                    /\ users[i].tokenExpires = NullDate
                    /\ BcryptCompare(Pw_2, users[i].password)
                    /\ ~BcryptCompare(Pw_1, users[i].password)

----------------------------------------------------------------------------
(* C16: password correctness across the lifecycle.  For a verified user,    *)
(* Login with the password most recently set (at Register, or by the last   *)
(* successful Reset Password) answers 200 and Login with any other password *)
(* answers 401: that holds once the password registered is verified, it     *)
(* holds after every successful Reset Password, and no other operation      *)
(* changes a stored password.                                               *)

\* on store, Login for rawEmail answers 200 with password and 401 with every other one
OnlyPassword(store, t, hdr, rawEmail, password) ==
  \A pw \in LifecyclePasswords :
    loginUser(store, t, RequestTenantId(hdr), rawEmail, pw).res.status =
      IF pw = password THEN 200 ELSE 401

C16_PasswordCorrectness ==
  [][ /\ res'.op = "register" /\ res'.status = 201 =>
           \A q \in LifecycleRegisterBodies, salt \in Salts :
             DoRegister(Tenant_1, q, salt, TRUE) =>
               OnlyPassword(verifyEmail(users', now', nextToken).users, now',
                            Tenant_1, q.email, q.password)
      /\ res'.op = "reset" /\ res'.status = 200 =>
           \A q \in LifecycleResetBodies, salt \in Salts :
             DoResetPassword(q, salt) =>
               \A i \in Ids : users[i].resetToken = q.token /\ users'[i].isVerified =>
                 OnlyPassword(users', now', Tenant_1, users'[i].email, q.password)
      /\ ~(res'.op = "reset" /\ res'.status = 200) =>
           \A i \in Ids : users'[i].password = users[i].password ]_vars

----------------------------------------------------------------------------
(* C17: session guard admission.  The guard admits a request only if the    *)
(* Authorization header carries a Bearer token, the token verifies          *)
(* (signature and expiry) and the user its claims name exists in the store  *)
(* with isVerified = true; every other request is answered 401 and the      *)
(* protected handler does not run (nothing is written, no 200 or 403).      *)

\* session tokens a request may carry: the ones clients hold, and tokens of
\* any user id, role, expiry and signing key
GuardTokens ==
  held \cup [ secret : {JWT_SECRET, OtherSecret}, userId : 1..(MaxUsers + 1),
              email : {NormalizeEmail(Email_a)}, role : {"user", "admin"},
              tenantId : {Str_default}, exp : {now, now + ClockStep} ]

\* what the claim asks of an admitted token
Admissible(tok) ==
  /\ tok.secret = JWT_SECRET
  /\ tok.exp > now
  /\ tok.userId \in Ids
  /\ users[tok.userId].isVerified

\* a protected route answered 401 and wrote nothing
Rejected(r) == r.res.status = 401 /\ r.users = users

C17_SessionGuardAdmission ==
  /\ authMiddleware(users, now, NoSession).status = 401
  /\ \A name \in ProfileNames, avatarURL \in Avatars :
       Rejected(updateProfile(users, now, NoSession, name, avatarURL))
  /\ Rejected(adminPanel(users, now, NoSession))
  /\ \A tok \in GuardTokens :
       LET guard == authMiddleware(users, now, {tok})
       IN /\ guard.status \in {0, 401}
          /\ guard.status = 0 <=> Admissible(tok)
          /\ ~Admissible(tok) =>
               /\ Rejected(adminPanel(users, now, {tok}))
               /\ \A name \in ProfileNames, avatarURL \in Avatars :
                    Rejected(updateProfile(users, now, {tok}, name, avatarURL))

\* the guard has turned away a held token that expired, and one of a
\* foreign signature is at hand
C17_Witness ==
  /\ res.op = "profile" /\ res.status = 401
  /\ res.msg = "Unauthorized: Token expired"
  /\ res.session \subseteq held /\ res.session # NoSession
  /\ \E i \in Ids : ~users[i].isVerified

----------------------------------------------------------------------------
(* C18: role check ordering.  On the admin-only route the session guard     *)
(* runs before the role check: a request with no token or a token the guard *)
(* refuses gets 401, never 403; a request with a token the guard admits     *)
(* whose role claim is not admin gets 403; only an admitted token with role *)
(* admin reaches the handler (200).                                         *)

\* the status the claim asks of the admin route for an Authorization header
AdminStatus(bearer) ==
  IF bearer = NoSession \/ \E tok \in bearer : ~Admissible(tok) THEN 401
  ELSE IF \E tok \in bearer : tok.role # "admin" THEN 403
  ELSE 200

C18_RoleCheckOrdering ==
  [][ /\ \A bearer \in {NoSession} \cup {{tok} : tok \in GuardTokens} :
           adminPanel(users, now, bearer).res.status = AdminStatus(bearer)
      /\ res'.op = "admin" =>
           \A bearer \in Bearers :
             DoAdminPanel(bearer) => res'.status = AdminStatus(bearer) /\ users' = users ]_vars

\* the admin route has refused a verified user's valid token for its role
C18_Witness ==
  /\ res.op = "admin" /\ res.status = 403
  /\ \E tok \in res.session : Admissible(tok) /\ tok.role = "user"

----------------------------------------------------------------------------
(* C19: Update Profile scoping.  Given verified session claims, Update      *)
(* Profile changes the name and avatarURL of the one record whose id and    *)
(* tenantId equal the userId and tenantId of the claims and nothing else;   *)
(* when no record has that id and tenantId (no such user, or a user of      *)
(* another tenant) it answers 404 and changes nothing.  The route runs it   *)
(* only for claims the guard admits.                                        *)

\* session tokens of any user id and of the tenant of the accounts or another
ProfileTokens ==
  held \cup [ secret : {JWT_SECRET}, userId : 1..(MaxUsers + 1),
              email : {NormalizeEmail(Email_a)}, role : {"user"},
              tenantId : {Str_default, Tenant_1}, exp : {now + ClockStep} ]

C19_UpdateProfileScoping ==
  \A tok \in ProfileTokens, name \in ProfileNames, avatarURL \in Avatars :
    LET handled == updateProfileHandler(users, tok, tok.tenantId, name, avatarURL)
        r == updateProfile(users, now, {tok}, name, avatarURL)
        matches == tok.userId \in Ids /\ users[tok.userId].tenantId = tok.tenantId
    IN /\ IF matches
            THEN /\ handled.res.status = 200
                 /\ handled.users = [users EXCEPT ![tok.userId].name = name,
                                                  ![tok.userId].avatarURL = avatarURL]
            ELSE handled.res.status = 404 /\ handled.users = users
       \* the route: the guard, then the handler
       /\ Admissible(tok) => r = handled
       /\ ~Admissible(tok) => Rejected(r)

\* a profile was updated while another record and the owner's other fields
\* stayed as they were
C19_Witness ==
  /\ res.op = "profile" /\ res.status = 200
  /\ Len(users) = 2
  /\ \E tok \in res.session :
       /\ users[tok.userId].name \in ProfileNames
       /\ users[tok.userId].avatarURL \in Avatars
       /\ \E j \in Ids : j # tok.userId /\ users[j].name \in ValidNames
                                        /\ users[j].avatarURL = NoAvatar

----------------------------------------------------------------------------
(* C20: session claims.  The session token of a successful Login carries    *)
(* the userId, email and role of the account that logged in (role user for  *)
(* a registered account) and, as tenantId, the tenant the Login request     *)
(* addressed, which is the account's tenant.                                *)

C20_SessionClaims ==
  \A hdr \in TenantHeaders, q \in LoginBodies :
    LET r == LoginNow(hdr, q.email, q.password)
    IN r.status = 200 =>
         /\ r.session # NoSession
         /\ \A s \in r.session :
              /\ s.userId \in Ids
              /\ users[s.userId].email = NormalizeEmail(q.email)
              /\ s.email = users[s.userId].email
              /\ s.role = users[s.userId].role
              /\ s.role = "user"
              /\ s.tenantId = users[s.userId].tenantId
              /\ s.tenantId = TenantOf(hdr)

----------------------------------------------------------------------------
(* C21: for every combination of tenant header, app-name header and         *)
(* tenantId query parameter, the tenant resolver yields the first non-empty *)
(* value among them in that order, lower-cased and trimmed, and "default"   *)
(* when none is non-empty; what it yields is never empty.                   *)

\* the first non-empty of the three values, <<>> when there is none
FirstNonEmpty(x, a, q) == IF x # <<>> THEN x ELSE IF a # <<>> THEN a ELSE q

C21_TenantResolver ==
  res.op = "tenant" =>
    LET first == FirstNonEmpty(res.xTenantId, res.xAppName, res.queryTenantId)
    IN /\ res.next
       /\ first # <<>> => res.tenantId = Trim(ToLowerCase(first))
       /\ first = <<>> => res.tenantId = Str_default
       /\ res.tenantId # <<>>

----------------------------------------------------------------------------
(* C22: for an existing user of the tenant with isVerified = false, Resend  *)
(* Verification returns 200 and mints a new verification token that         *)
(* overwrites the prior one, which then no longer validates; for an unknown *)
(* or already verified user it returns 404.                                 *)

C22_ResendVerification ==
  [][res'.op = "resend" =>
       \A hdr \in ResendHeaders, email \in {Email_a, Email_b} :
         DoResendVerification(hdr, email) =>
           LET A == Accounts(users, TenantOf(hdr), email)
           IN IF \E i \in A : ~users[i].isVerified
              THEN /\ res'.status = 200
                   /\ \A i \in A :
                        /\ users'[i].verificationToken \notin {NullToken, users[i].verificationToken}
                        /\ verifyEmail(users', now, users[i].verificationToken).res.status # 200
              ELSE res'.status = 404]_vars

----------------------------------------------------------------------------
(* C23: across every sequence of operations a user record, once created, is *)
(* never removed, its id, tenantId and email never change, and isVerified   *)
(* never goes from true back to false.                                      *)

C23_LifecycleMonotonicity ==
  [][/\ Len(users') >= Len(users)
     /\ \A i \in Ids :
          /\ users'[i].tenantId = users[i].tenantId
          /\ users'[i].email = users[i].email
          /\ users[i].isVerified => users'[i].isVerified]_vars

\* a verified account has had its password reset and its profile updated
\* while a second account exists
C23_Witness ==
  /\ Len(users) = 2
  /\ \E i \in Ids :
       /\ users[i].isVerified
       /\ users[i].name \in ProfileNames
       /\ users[i].password.key = Pw_2

----------------------------------------------------------------------------
(* C24: in every reachable state a user whose verificationToken and         *)
(* resetToken are both null has tokenExpires null, and a user with a        *)
(* non-null verificationToken or resetToken has a non-null tokenExpires.    *)

C24_ExpiryFieldConsistency ==
  \A i \in Ids :
    (users[i].verificationToken = NullToken /\ users[i].resetToken = NullToken)
      <=> users[i].tokenExpires = NullDate

----------------------------------------------------------------------------
(* C25: Reset Password with a missing token, a missing password or a        *)
(* password shorter than 6 characters returns 400 without looking up or     *)
(* changing any record, even when the token is valid; a password of exactly *)
(* 6 characters passes the length check.                                    *)

C25_ResetPasswordValidation ==
  \A token \in PresentedTokens, password \in Passwords, salt \in Salts :
    LET r == resetPassword(users, now, token, password, salt)
    IN /\ (token = NullToken \/ password = <<>> \/ Len(password) < 6) =>
            /\ r.res.status = 400
            /\ r.users = users
            \* the answer is the one given over an empty collection
            /\ r.res = resetPassword(<<>>, now, token, password, salt).res
            /\ r.res.msg # Msg_resetInvalid
       /\ (token # NullToken /\ Len(password) = 6) =>
            (r.res.status = 200 <=> ByLiveResetToken(users, token, now) # 0)

\* a Reset Password was turned away for its short password while a live
\* reset token was on a record
C25_Witness ==
  /\ res.op = "reset"
  /\ res.status = 400
  /\ res.msg = "Password must be at least 6 characters"
  /\ \E i \in Ids : users[i].resetToken = 2 /\ ExpiryAfter(users[i], now)

----------------------------------------------------------------------------
(* C26: the expiry that Forgot Password assigns to a reset token is         *)
(* strictly sooner, counted from the time of minting, than the expiry that  *)
(* Register assigns to a verification token.                                *)

\* how long after now a Register served now lets its verification token live
VerificationLifetime ==
  registerUser(<<>>, now, nextToken, Undefined, "Al", Email_a, Pw_1, 1, TRUE).users[1].tokenExpires - now

C26_ResetTtlShorter ==
  \A hdr \in TenantHeaders, e \in ValidEmails :
    LET r == forgotPassword(users, now, nextToken, RequestTenantId(hdr), e, TRUE)
    IN r.res.status = 200 =>
         \A i \in Ids : r.users[i].resetToken = nextToken =>
                          r.users[i].tokenExpires - now < VerificationLifetime

----------------------------------------------------------------------------
(* C27: a stored token presented at time now is accepted exactly when it is *)
(* non-null, equals the presented token, and now <= tokenExpires; a token   *)
(* presented at exactly its expiry instant is still accepted by Verify      *)
(* Email and by Reset Password.                                             *)

C27_ExpiryBoundary ==
  \A token \in PresentedTokens \ {NullToken} :
    /\ verifyEmail(users, now, token).res.status = 200
         <=> \E i \in Ids : /\ users[i].verificationToken = token
                            /\ users[i].tokenExpires # NullDate
                            /\ now <= users[i].tokenExpires
    /\ \A salt \in Salts :
         resetPassword(users, now, token, Pw_1, salt).res.status = 200
           <=> \E i \in Ids : /\ users[i].resetToken = token
                              /\ users[i].tokenExpires # NullDate
                              /\ now <= users[i].tokenExpires

----------------------------------------------------------------------------
(* C28: every operation modifies at most one user record, the one its       *)
(* (tenantId, email), its token or its session claims identify, and leaves  *)
(* every other record unchanged; Forgot Password or Reset Password for an   *)
(* email in one tenant never alters the record of that email in another     *)
(* tenant; operations on different users commute.                           *)

\* the records a step changed
Changed == {i \in Ids : users'[i] # users[i]}

\* the operations a client can aim at record i: a Forgot Password for its
\* email, a Verify Email and a Reset Password with the tokens it holds
OpsOn(i) ==
  {[kind |-> "forgot", arg |-> i]}
    \cup {[kind |-> "verify", arg |-> users[i].verificationToken] : z \in {j \in {i} : users[j].verificationToken # NullToken}}
    \cup {[kind |-> "reset", arg |-> users[i].resetToken] : z \in {j \in {i} : users[j].resetToken # NullToken}}

\* the collection after operation op, which mints tok if it mints
Apply(store, op, tok) ==
  IF op.kind = "forgot"
    THEN forgotPassword(store, now, tok, RequestTenantId(Tenant_1), store[op.arg].email, TRUE).users
  ELSE IF op.kind = "verify" THEN verifyEmail(store, now, op.arg).users
  ELSE resetPassword(store, now, op.arg, Pw_2, 1).users

Commute ==
  \A i, j \in Ids : i # j =>
    \A a \in OpsOn(i), b \in OpsOn(j) :
      Apply(Apply(users, a, nextToken), b, nextToken + 1)
        = Apply(Apply(users, b, nextToken + 1), a, nextToken)

C28_IndependenceOfUsers ==
  [][/\ Cardinality(Changed) + (Len(users') - Len(users)) <= 1
     /\ Commute
     /\ res'.op = "forgot" =>
          \A q \in ForgotRequests, mailOk \in BOOLEAN :
            DoForgotPassword(q.hdr, q.body.email, mailOk) =>
              Changed \subseteq Accounts(users, TenantOf(q.hdr), q.body.email)
     /\ res'.op = "verify" =>
          \A token \in PresentedTokens :
            DoVerifyEmail(token) =>
              Changed \subseteq {i \in Ids : users[i].verificationToken = token}
     /\ res'.op = "reset" =>
          \A q \in ResetBodies, salt \in Salts :
            DoResetPassword(q, salt) =>
              Changed \subseteq {i \in Ids : users[i].resetToken = q.token}
     /\ res'.op \in {"register", "login"} => Changed = {}]_vars

----------------------------------------------------------------------------
(* C29: the session guard reports an expired session token with a reason    *)
(* distinct from the one for a tampered or malformed token, a missing       *)
(* token, a user that no longer exists and an unverified user, while every  *)
(* one of these failures has status 401.                                    *)

\* Authorization headers: none, or a Bearer token of any kind
GuardBearers == {NoSession} \cup {{tok} : tok \in GuardTokens}

\* the header carries a token of our signature whose expiry has passed
ExpiredBearer(bearer) == \E tok \in bearer : tok.secret = JWT_SECRET /\ tok.exp <= now

\* the header fails the guard for one of the other reasons
OtherwiseFailing(bearer) ==
  /\ ~ExpiredBearer(bearer)
  /\ \/ bearer = NoSession
     \/ \E tok \in bearer : \/ tok.secret # JWT_SECRET
                             \/ tok.userId \notin Ids
                             \/ ~users[tok.userId].isVerified

C29_GuardFailureReasons ==
  LET expired == {b \in GuardBearers : ExpiredBearer(b)}
      others == {b \in GuardBearers : OtherwiseFailing(b)}
      Reason(b) == authMiddleware(users, now, b).msg
  IN /\ \A b \in expired \cup others : authMiddleware(users, now, b).status = 401
     /\ {Reason(b) : b \in expired} \cap {Reason(b) : b \in others} = {}
     /\ \A b \in expired : Reason(b) # ""

\* the admin route has turned away an expired token while the store holds a
\* verified and an unverified user
C29_Witness ==
  /\ res.op = "admin" /\ res.status = 401
  /\ res.msg = "Unauthorized: Token expired"
  /\ \E i, j \in Ids : users[i].isVerified /\ ~users[j].isVerified

----------------------------------------------------------------------------
(* C30: the user payload returned by a successful Update Profile never      *)
(* contains the passwordHash, the verificationToken or the resetToken of    *)
(* the record, whatever their stored values are.                            *)

Secrets == {"password", "verificationToken", "resetToken"}

\* the collection with other values in the secret fields of every record
Scrambled(store) ==
  [i \in 1..Len(store) |->
     [store[i] EXCEPT !.password = BcryptHash(Pw_short, 1),
                      !.verificationToken = BogusToken,
                      !.resetToken = BogusToken]]

C30_SanitizedProfileResult ==
  /\ (res.op = "profile" /\ res.status = 200) =>
       /\ res.user # {}
       /\ \A u \in res.user : DOMAIN u \cap Secrets = {}
  /\ \A tok \in ProfileTokens, name \in ProfileNames, avatarURL \in Avatars :
       LET r == updateProfile(users, now, {tok}, name, avatarURL)
           q == updateProfile(Scrambled(users), now, {tok}, name, avatarURL)
       IN r.res.status = 200 =>
            /\ \A u \in r.res.user : DOMAIN u \cap Secrets = {}
            /\ q.res = r.res

\* Update Profile has answered 200 for a user with a password and a pending
\* reset token on its record
C30_Witness ==
  /\ res.op = "profile" /\ res.status = 200
  /\ \E tok \in res.session :
       /\ tok.userId \in Ids
       /\ users[tok.userId].resetToken # NullToken
       /\ users[tok.userId].name \in ProfileNames
       /\ \E u \in res.user : u.email = users[tok.userId].email

----------------------------------------------------------------------------
(* C31: a verification token minted by Register at time t is never accepted *)
(* by Verify Email later than t + verification TTL, whatever Forgot         *)
(* Password operations are performed for that account in between.           *)

\* the verification tokens on the records; each was minted at Epoch
PendingVerificationTokens ==
  {users[i].verificationToken : i \in Ids} \ {NullToken}

C31_VerificationLifetimeFixed ==
  \A token \in PendingVerificationTokens :
    verifyEmail(users, now, token).res.status = 200 => now <= Epoch + VERIFY_TTL

----------------------------------------------------------------------------
(* C32: for an unverified user, a verification token presented before its   *)
(* expiry is accepted by Verify Email even if a Forgot Password and a       *)
(* successful Reset Password were completed for that account in between;    *)
(* and a pending unexpired reset token is still accepted by Reset Password  *)
(* after that user completes Verify Email.                                  *)

\* the step completed a Reset Password for record i
ResetCompleted(i) ==
  /\ res'.op = "reset" /\ res'.status = 200
  /\ users[i].resetToken # NullToken /\ users'[i].resetToken = NullToken

\* the step completed a Verify Email for record i
VerifyCompleted(i) ==
  /\ res'.op = "verify" /\ res'.status = 200
  /\ ~users[i].isVerified /\ users'[i].isVerified

C32_VerificationSurvivesReset ==
  \A i \in Ids :
    /\ ResetCompleted(i)
    /\ ~users[i].isVerified
    /\ users[i].verificationToken # NullToken
    /\ now < Epoch + VERIFY_TTL
    => verifyEmail(users', now', users[i].verificationToken).res.status = 200

C32_ResetSurvivesVerification ==
  \A i \in Ids :
    /\ VerifyCompleted(i)
    /\ users[i].resetToken # NullToken
    /\ ExpiryAfter(users[i], now)
    => \A salt \in Salts :
         resetPassword(users', now', users[i].resetToken, Pw_2, salt).res.status = 200

C32_LiveTokenSurvives ==
  [][C32_VerificationSurvivesReset /\ C32_ResetSurvivesVerification]_vars

----------------------------------------------------------------------------
(* C33: the credential store changes only on Register returning 201, Verify *)
(* Email success, Forgot Password after its user lookup succeeds, Reset     *)
(* Password returning 200 and Update Profile returning 200; every Login     *)
(* outcome, every session-guard outcome and every outcome with status 400,  *)
(* 401, 403, 404 or 409 leaves every user record unchanged.                 *)

\* the outcomes the claim allows to write
Writing(r) ==
  \/ r.op = "register" /\ r.status = 201
  \/ r.op = "verify" /\ r.status = 200
  \/ r.op = "forgot" /\ r.status \in {200, 500}
  \/ r.op = "reset" /\ r.status = 200
  \/ r.op = "profile" /\ r.status = 200

C33_StoreFrame ==
  [][users' # users =>
       /\ Writing(res')
       /\ res'.status \notin {400, 401, 403, 404, 409}
       /\ res'.op \notin {"login", "admin"}]_vars

\* Verify Email has refused an expired token, which is still on its record,
\* and a Login has been refused
C33_Witness ==
  /\ res.op = "verify" /\ res.status = 400 /\ res.msg = Msg_tokenExpired
  /\ \E i \in Ids : users[i].verificationToken # NullToken /\ ~ExpiryAfter(users[i], now)

----------------------------------------------------------------------------
(* C34: when Forgot Password returns 500 because the EmailSender failed,    *)
(* the newly minted reset token and its expiry have already been stored on  *)
(* the user, so any reset token issued earlier for that user no longer      *)
(* validates and the new, undelivered token is the only one Reset Password  *)
(* accepts.                                                                 *)

\* the reset tokens Reset Password accepts on store at time t
AcceptedResetTokens(store, t) ==
  {token \in PresentedTokens :
     \E salt \in Salts : resetPassword(store, t, token, Pw_2, salt).res.status = 200}

C34_ForgotPersistsBeforeSending ==
  [][res'.op = "forgot" /\ res'.status = 500 =>
       \A q \in ForgotRequests :
         DoForgotPassword(q.hdr, q.body.email, FALSE) =>
           LET i == ByEmailTenant(users, NormalizeEmail(q.body.email),
                                  ControllerTenant(RequestTenantId(q.hdr)))
           IN /\ i \in Ids
              /\ users'[i].resetToken = nextToken
              /\ users'[i].tokenExpires = now + RESET_TTL
              /\ users[i].resetToken \notin AcceptedResetTokens(users', now')
              /\ {users'[j].resetToken : j \in {i}} \cap AcceptedResetTokens(users', now')
                   = {nextToken}
              \* whatever else is accepted belongs to another record
              /\ \A token \in AcceptedResetTokens(users', now') \ {nextToken} :
                   \E j \in Ids \ {i} : users'[j].resetToken = token]_vars

\* a Forgot Password answered 500 for the only account, which had been
\* issued a reset token before
C34_Witness ==
  /\ res.op = "forgot" /\ res.status = 500 /\ res.mail = "failed"
  /\ Len(users) = 1
  /\ users[1].verificationToken = 1
  /\ users[1].resetToken = 3

----------------------------------------------------------------------------
(* C35: a token minted as a verification token is never accepted by Reset   *)
(* Password, and a token minted as a reset token is never accepted by       *)
(* Verify Email; Reset Password can change a password only with a token     *)
(* minted by Forgot Password.                                               *)

\* In the system of one account the first token minted is the verification
\* token of its Register, and every later one is minted by Forgot Password.
MintedByRegister == {1}
MintedByForgotPassword == 2..MaxTokens

\* what the tokens' kinds say of the store: only the Register of the account
\* mints before any Forgot Password can
MintOrder ==
  /\ users = <<>> => nextToken = 1
  /\ \A i \in Ids : users[i].verificationToken \in MintedByRegister \cup {NullToken}

C35_TokenPurposeSeparation ==
  [][/\ MintOrder'
     /\ \A token \in MintedByRegister, password \in LifecyclePasswords, salt \in Salts :
          resetPassword(users', now', token, password, salt).res.status # 200
     /\ \A token \in MintedByForgotPassword :
          verifyEmail(users', now', token).res.status # 200
     /\ (\E i \in Ids : users'[i].password # users[i].password) =>
          /\ res'.op = "reset" /\ res'.status = 200
          /\ \A q \in LifecycleResetBodies, salt \in Salts :
               DoResetPassword(q, salt) => q.token \in MintedByForgotPassword]_vars

\* a reset has gone through while the verification token is still pending,
\* and another reset token has been minted since
C35_Witness ==
  /\ Len(users) = 1
  /\ users[1].verificationToken = 1
  /\ users[1].resetToken = 3
  /\ users[1].password.key \in {Pw_2, SubSeq(Pw_long_2, 1, 72)}

----------------------------------------------------------------------------
(* C36: a successful Reset Password leaves isVerified, role, email and      *)
(* tenantId of the user unchanged, so an unverified user who completes      *)
(* Forgot Password and Reset Password is still refused by Login with        *)
(* needsVerification.                                                       *)

C36_ResetDoesNotVerify ==
  [][res'.op = "reset" /\ res'.status = 200 =>
       \A i \in Ids :
         /\ users'[i].isVerified = users[i].isVerified
         /\ users'[i].role = users[i].role
         /\ users'[i].email = users[i].email
         /\ users'[i].tenantId = users[i].tenantId
         /\ (users'[i].password # users[i].password /\ ~users[i].isVerified) =>
              \A hdr \in TenantHeaders, password \in ValidPasswords :
                LET r == loginUser(users', now', RequestTenantId(hdr), users[i].email, password).res
                IN /\ r.status = 401
                   /\ r.needsVerification
                   /\ r.session = NoSession]_vars

\* an unverified user has completed Forgot Password and Reset Password
C36_Witness ==
  /\ res.op = "reset" /\ res.status = 200
  /\ \E i \in Ids :
       /\ ~users[i].isVerified
       /\ users[i].verificationToken # NullToken
       /\ users[i].resetToken = NullToken
       /\ \E password \in ValidPasswords : BcryptCompare(password, users[i].password)
       /\ users[i].password.key # Pw_1

----------------------------------------------------------------------------
(* C37: once Forgot Password has returned 200 for a user, the reset token   *)
(* it mailed is accepted by Reset Password until it expires, is consumed or *)
(* is superseded by a later Forgot Password, even when a Reset Password     *)
(* call presenting an earlier token for the same user interleaves with that *)
(* Forgot Password.                                                         *)

\* the step is the save of handler p's Reset Password
ResetSaved(p) == procs[p].pc = "reset_save" /\ procs'[p].pc = "idle"

C37_MailedResetTokenStaysUsable ==
  [][\A p \in Procs :
       ResetSaved(p) =>
         \A token \in AcceptedResetTokens(users, now) \ AcceptedResetTokens(users', now') :
           token = procs[p].token]_vars

----------------------------------------------------------------------------
(* The system of held sessions and POST /api/auth/logout.  Every login of   *)
(* this system presents the password of the registration, so a session      *)
(* held for a user whose password has been reset was issued before the      *)
(* reset.                                                                   *)

Msg_logout == "Logout successful. Please remove your token on client side."

\* router.post("/logout", ...): no guard, no lookup, no write
logout(store) == Outcome(store, Response("logout", 200, Msg_logout), FALSE)

\* the route reads nothing of the request; the client may keep its token
DoLogout(bearer) ==
  /\ Commit(logout(users))
  /\ UNCHANGED <<now, held, procs>>

LogoutLoginBodies == [email : {Email_a, Email_b}, password : {Pw_1}]

LogoutLogin == \E q \in LogoutLoginBodies : DoLogin(Tenant_1, q, TRUE)

Logout == \E bearer \in Bearers : DoLogout(bearer)

NextLogout ==
  \/ SessionRegister
  \/ LogoutLogin
  \/ VerifyEmail
  \/ SessionForgotPassword
  \/ SessionResetPassword
  \/ Logout
  \/ AdminPanel
  \/ Tick

SpecLogout == Init /\ [][NextLogout]_vars

----------------------------------------------------------------------------
(* C38: a session token issued by Login keeps being admitted by the session *)
(* guard until its own expiry after a Logout call and after a successful    *)
(* Reset Password for the same user: a step that is a Logout or a           *)
(* successful Reset Password leaves every held token the guard admitted     *)
(* admitted, unless the token has expired.                                  *)

\* the guard calls next() for the token
Admitted(store, t, s) == authMiddleware(store, t, {s}).status = 0

C38_SessionsNotRevoked ==
  [][(res'.op = "logout" \/ (res'.op = "reset" /\ res'.status = 200)) =>
       \A s \in held :
         (Admitted(users, now, s) /\ s.exp > now') => Admitted(users', now', s)]_vars

\* a Logout has been answered, and the guard admits a session issued before
\* the reset of its user's password
C38_Witness ==
  /\ res.op = "logout" /\ res.status = 200
  /\ \E s \in held :
       /\ Admitted(users, now, s)
       /\ users[s.userId].password.key = Pw_2
       /\ adminPanel(users, now, {s}).res.status # 401

----------------------------------------------------------------------------
(* The system of clients that never type an email the way it is stored:     *)
(* every request carries capitals or surrounding blanks.                    *)

Email_A2 == <<"A", "@", "x", " ">>
Email_B2 == <<" ", "b", "@", "X", " ">>
TypedEmails == {Email_A, Email_A2, Email_B2}

TypedRegisterBodies == [name : ValidNames, email : TypedEmails, password : {Pw_1}]
TypedLoginBodies == [email : TypedEmails, password : ValidPasswords]
TypedResetBodies == [token : 1..MaxTokens, password : {Pw_2}]

TypedRegister ==
  \E q \in TypedRegisterBodies, salt \in Salts : DoRegister(Tenant_1, q, salt, TRUE)

TypedLogin == \E q \in TypedLoginBodies : DoLogin(Tenant_1, q, TRUE)

TypedForgotPassword == \E email \in TypedEmails : DoForgotPassword(Tenant_1, email, TRUE)

TypedResetPassword == \E q \in TypedResetBodies, salt \in Salts : DoResetPassword(q, salt)

NextTyped ==
  \/ TypedRegister
  \/ TypedLogin
  \/ VerifyEmail
  \/ TypedForgotPassword
  \/ TypedResetPassword
  \/ Tick

SpecTyped == Init /\ [][NextTyped]_vars

----------------------------------------------------------------------------
(* C39: Register, Login and Forgot Password identify an account by the      *)
(* trimmed, lower-cased email: within one tenant, Register with an email    *)
(* that differs from an existing account's only in letter case or           *)
(* surrounding whitespace answers 409 and writes nothing, and Login and     *)
(* Forgot Password with such an email reach that account.                   *)

\* the two emails differ in letter case or surrounding blanks at most
SameAddress(e1, e2) == ToLowerCase(Trim(e1)) = ToLowerCase(Trim(e2))

\* the ways of typing an email that a request may carry
Typings == TypedEmails \cup {Email_a, Email_b, <<" ", "a", "@", "X">>, <<"B", "@", "x">>}

\* the headers under which the controller addresses user i's tenant
HeadersOf(i) ==
  {hdr \in TenantHeaders \cup {Undefined} :
     ControllerTenant(RequestTenantId(hdr)) = users[i].tenantId}

====
